---- MODULE Spec2Model ----
(***************************************************************************)
(* HIME phonetic (Bopomofo/Zhuyin) input engine.                           *)
(*                                                                         *)
(* Model of pime/hime/hime_engine.py (PhoneticEngine, HIMEInputEngine)     *)
(* and of the parts of pime/hime/hime_data.py it runs on (PhoneticTable,   *)
(* pho2key, key_typ_pho, BOPOMOFO_CHARS).                                  *)
(*                                                                         *)
(* Three specifications: Spec drives the facade over a loaded table (or     *)
(* none); TableSpec loads a table file and calls lookup or get_char on it; *)
(* CodecSpec applies the key codec and the display functions to a buffer.  *)
(*                                                                         *)
(* Conventions.  A Python str is the sequence of its code points, a bytes  *)
(* object the sequence of its byte values; '' and b'' are << >>.  A key    *)
(* character is its code point.  A Python list is a sequence; the Python   *)
(* index i is the TLA+ index i + 1.                                        *)
(***************************************************************************)
EXTENDS Integers, Sequences, FiniteSets, TLC

(***************************************************************************)
(* Bounds of the model.                                                    *)
(***************************************************************************)
\* Number of entries of the largest homophone group of the tables.
BigGroup == 25
\* Number of entries of the homophone group that just overflows one page.
MidGroup == 11
\* Largest number of character entries of a table file that is probed on its
\* own (TableSpec).
MaxItems == 3
\* Largest number of items of a generic table file (LoaderSpec).
MaxDefChars == 2

(***************************************************************************)
(* Helpers for Python built-ins.                                           *)
(***************************************************************************)
Pow2(n) == 2 ^ n

\* Python's a | b on non-negative integers.
RECURSIVE BitOr(_, _)
BitOr(a, b) ==
    IF a = 0 THEN b
    ELSE IF b = 0 THEN a
    ELSE (IF (a % 2) + (b % 2) > 0 THEN 1 ELSE 0) + 2 * BitOr(a \div 2, b \div 2)

\* Python's a & b on non-negative integers.
RECURSIVE BitAnd(_, _)
BitAnd(a, b) ==
    IF a = 0 \/ b = 0 THEN 0
    ELSE (IF (a % 2) + (b % 2) = 2 THEN 1 ELSE 0) + 2 * BitAnd(a \div 2, b \div 2)

\* Faulty variant: the character is taken as it is.
LowerKept(c) == c

\* str.lower() of a single ASCII character.
Lower(c) == IF c \in 65..90 THEN c + 32 ELSE c

\* Python's seq[a:b] for 0 <= a.
Min(a, b) == IF a < b THEN a ELSE b

Slice(s, a, b) == IF a >= Min(b, Len(s)) THEN << >> ELSE SubSeq(s, a + 1, Min(b, Len(s)))

\* bytes.rstrip(b'\x00')
RECURSIVE RStripZero(_)
RStripZero(b) ==
    IF b = << >> THEN << >>
    ELSE IF b[Len(b)] = 0 THEN RStripZero(SubSeq(b, 1, Len(b) - 1))
    ELSE b

\* bytes.find(b'\x00', from): index of the first zero byte at or after
\* from, or -1.
RECURSIVE FindZero(_, _)
FindZero(b, from) ==
    IF from >= Len(b) THEN -1
    ELSE IF b[from + 1] = 0 THEN from
    ELSE FindZero(b, from + 1)

IsCont(x) == x \in 128..191

\* The number of bytes of the UTF-8 sequence that starts at b[i], 0 when
\* there is no valid sequence (strict decoding: no overlong forms, no
\* surrogates, nothing above U+10FFFF).
Utf8Width(b, i) ==
    IF b[i] < 128 THEN 1
    ELSE IF b[i] \in 194..223
         THEN IF Len(b) >= i + 1 /\ IsCont(b[i + 1]) THEN 2 ELSE 0
    ELSE IF b[i] \in 224..239
         THEN IF /\ Len(b) >= i + 2 /\ IsCont(b[i + 1]) /\ IsCont(b[i + 2])
                 /\ (b[i] = 224 => b[i + 1] >= 160)
                 /\ (b[i] = 237 => b[i + 1] <= 159)
              THEN 3 ELSE 0
    ELSE IF b[i] \in 240..244
         THEN IF /\ Len(b) >= i + 3
                 /\ IsCont(b[i + 1]) /\ IsCont(b[i + 2]) /\ IsCont(b[i + 3])
                 /\ (b[i] = 240 => b[i + 1] >= 144)
                 /\ (b[i] = 244 => b[i + 1] <= 143)
              THEN 4 ELSE 0
    ELSE 0

\* The code point of the w-byte UTF-8 sequence at b[i].
Utf8CodePoint(b, i, w) ==
    IF w = 1 THEN b[i]
    ELSE IF w = 2 THEN (b[i] - 192) * 64 + (b[i + 1] - 128)
    ELSE IF w = 3 THEN (b[i] - 224) * 4096 + (b[i + 1] - 128) * 64 + (b[i + 2] - 128)
    ELSE (b[i] - 240) * 262144 + (b[i + 1] - 128) * 4096
         + (b[i + 2] - 128) * 64 + (b[i + 3] - 128)

RECURSIVE Utf8From(_, _, _)
Utf8From(b, i, text) ==
    IF i > Len(b) THEN [ok |-> TRUE, text |-> text]
    ELSE IF Utf8Width(b, i) = 0 THEN [ok |-> FALSE, text |-> << >>]
    ELSE Utf8From(b, i + Utf8Width(b, i),
                  Append(text, Utf8CodePoint(b, i, Utf8Width(b, i))))

\* bytes.decode('utf-8') (strict): [ok, text].
Utf8Decode(b) == Utf8From(b, 1, << >>)

\* str.encode('latin-1'): [ok, bytes]; fails on a code point above 255.
Latin1Encode(s) ==
    [ok |-> \A i \in 1..Len(s) : s[i] <= 255, bytes |-> s]

(***************************************************************************)
(* hime_data.py: constants and the phonetic key codec.                     *)
(***************************************************************************)
CH_SZ == 4
PHO_PHRASE_ESCAPE == 27
BACK_QUOTE_NO == 24
SENTINEL_KEY == 65535

\* Bit lengths of the four segments: initial, medial, final, tone.
TYP_PHO_LEN == <<5, 2, 4, 3>>

\* Faulty variant: the back-quote component is packed like any other initial.
pho2key_plain(t) ==
    BitOr(t[4], BitOr(t[3], BitOr(t[2], t[1] * Pow2(2)) * Pow2(4)) * Pow2(3))

RECURSIVE pho2keyFrom(_, _, _)
pho2keyFrom(t, key, i) ==
    IF i > 4 THEN key
    ELSE pho2keyFrom(t, BitOr(t[i], key * Pow2(TYP_PHO_LEN[i])), i + 1)

pho2key(t) ==
    IF t[1] = BACK_QUOTE_NO THEN BitOr(BACK_QUOTE_NO * Pow2(9), t[2])
    ELSE pho2keyFrom(t, t[1], 2)

\* Python's a >> n on a non-negative integer.
Shr(a, n) == a \div Pow2(n)

\* Faulty variant: the final is masked with 0x7, one bit short.
key_typ_pho_short_final(phokey) ==
    << Shr(Shr(Shr(phokey, 3), 4), 2),
       BitAnd(Shr(Shr(phokey, 3), 4), 3),
       BitAnd(Shr(phokey, 3), 7),
       BitAnd(phokey, 7) >>

\* The successive "phokey >>= n" of key_typ_pho are Shr(Shr(phokey, 3), 4), ...
key_typ_pho(phokey) ==
    << Shr(Shr(Shr(phokey, 3), 4), 2),
       BitAnd(Shr(Shr(phokey, 3), 4), 3),
       BitAnd(Shr(phokey, 3), 15),
       BitAnd(phokey, 7) >>

\* Display characters, one list per segment; the first element of a list is
\* Python index 0.
BOPOMOFO_CHARS == <<
    << << >>, <<12549>>, <<12550>>, <<12551>>, <<12552>>, <<12553>>, <<12554>>,
       <<12555>>, <<12556>>, <<12557>>, <<12558>>, <<12559>>, <<12560>>,
       <<12561>>, <<12562>>, <<12563>>, <<12564>>, <<12565>>, <<12566>>,
       <<12567>>, <<12568>>, <<12569>>, <<91>>, <<93>>, <<96>> >>,
    << << >>, <<12583>>, <<12584>>, <<12585>> >>,
    << << >>, <<12570>>, <<12571>>, <<12572>>, <<12573>>, <<12574>>, <<12575>>,
       <<12576>>, <<12577>>, <<12578>>, <<12579>>, <<12580>>, <<12581>>,
       <<12582>> >>,
    << << >>, << >>, <<714>>, <<711>>, <<715>>, <<729>> >> >>

\* Faulty variant: the test for a filled slot is off by one, index 1 shows
\* nothing.
RECURSIVE SlotsToStrFromTwo(_, _)
SlotsToStrFromTwo(t, i) ==
    IF i > 4 THEN << >>
    ELSE (IF t[i] > 1 /\ t[i] < Len(BOPOMOFO_CHARS[i])
          THEN BOPOMOFO_CHARS[i][t[i] + 1] ELSE << >>) \o SlotsToStrFromTwo(t, i + 1)

RECURSIVE SlotsToStr(_, _)
SlotsToStr(t, i) ==
    IF i > 4 THEN << >>
    ELSE (IF t[i] > 0 /\ t[i] < Len(BOPOMOFO_CHARS[i])
          THEN BOPOMOFO_CHARS[i][t[i] + 1] ELSE << >>) \o SlotsToStr(t, i + 1)

phokey_to_str(phokey) == SlotsToStr(key_typ_pho(phokey), 1)

(***************************************************************************)
(* hime_data.py: PhoneticTable.                                            *)
(*                                                                         *)
(* A table file is given by its decoded header counts and arrays:          *)
(*   idx    the index array, records [key, start]                          *)
(*   items  the character array, records [raw, count], raw = CH_SZ bytes   *)
(*   phrase the bytes of the phrase area                                   *)
(***************************************************************************)
PhoIdx(key, start) == [key |-> key, start |-> start]
PhoItem(ch, count) == [ch |-> ch, count |-> count]

\* The character of one PHO_ITEM: UTF-8 with the trailing zero bytes
\* stripped, latin-1 when that does not decode.
DecodeWith(stripped, u) == IF u.ok THEN u.text ELSE stripped

DecodeCh(ch_bytes) == DecodeWith(RStripZero(ch_bytes), Utf8Decode(RStripZero(ch_bytes)))

\* Faulty variant: the sentinel carries the index count, not the character
\* count.
PhoLoadSentinelIdx(file) ==
    [ idxnum_pho  |-> Len(file.idx),
      ch_phoN     |-> Len(file.items),
      idx_pho     |-> file.idx \o << PhoIdx(SENTINEL_KEY, Len(file.idx)) >>,
      ch_pho      |-> [ i \in 1..Len(file.items) |->
                          PhoItem(DecodeCh(file.items[i].raw), file.items[i].count) ],
      phrase_area |-> file.phrase ]

\* PhoneticTable._load on a complete file.
PhoLoad(file) ==
    [ idxnum_pho  |-> Len(file.idx),
      ch_phoN     |-> Len(file.items),
      idx_pho     |-> file.idx \o << PhoIdx(SENTINEL_KEY, Len(file.items)) >>,
      ch_pho      |-> [ i \in 1..Len(file.items) |->
                          PhoItem(DecodeCh(file.items[i].raw), file.items[i].count) ],
      phrase_area |-> file.phrase ]

\* The text of a decoded phrase, '' when the bytes are not UTF-8.
TextOr(u) == IF u.ok THEN u.text ELSE << >>

\* The phrase that starts at offset: the bytes up to the next zero byte or
\* to the end of the phrase area.
PhraseEnd(phrase_area, found) == IF found = -1 THEN Len(phrase_area) ELSE found

PhraseAt(phrase_area, offset) ==
    TextOr(Utf8Decode(Slice(phrase_area, offset,
                            PhraseEnd(phrase_area, FindZero(phrase_area, offset)))))

\* The 24-bit little-endian offset of a phrase escape.
PhraseOffset(ch_bytes) ==
    BitOr(ch_bytes[2], BitOr(ch_bytes[3] * Pow2(8), ch_bytes[4] * Pow2(16)))

\* get_char on an item whose first character is the phrase escape; enc is
\* item.ch.encode('latin-1').
get_phrase(tab, ch, enc) ==
    IF ~enc.ok THEN [err |-> TRUE, text |-> << >>]
    ELSE IF Len(enc.bytes) >= 4
         THEN [err |-> FALSE, text |-> PhraseAt(tab.phrase_area, PhraseOffset(enc.bytes))]
    ELSE [err |-> FALSE, text |-> ch]

\* Faulty variant: an index outside the character array is subscripted, which
\* raises.
get_char_unguarded(tab, idx) ==
    IF idx < 0 \/ idx >= Len(tab.ch_pho) THEN [err |-> TRUE, text |-> << >>]
    ELSE IF tab.ch_pho[idx + 1].ch # << >> /\ tab.ch_pho[idx + 1].ch[1] = PHO_PHRASE_ESCAPE
         THEN get_phrase(tab, tab.ch_pho[idx + 1].ch, Latin1Encode(tab.ch_pho[idx + 1].ch))
    ELSE [err |-> FALSE, text |-> tab.ch_pho[idx + 1].ch]

\* PhoneticTable.get_char: [err, text]; err is the UnicodeEncodeError that
\* str.encode('latin-1') raises.
get_char(tab, idx) ==
    IF idx < 0 \/ idx >= Len(tab.ch_pho) THEN [err |-> FALSE, text |-> << >>]
    ELSE IF tab.ch_pho[idx + 1].ch # << >> /\ tab.ch_pho[idx + 1].ch[1] = PHO_PHRASE_ESCAPE
         THEN get_phrase(tab, tab.ch_pho[idx + 1].ch, Latin1Encode(tab.ch_pho[idx + 1].ch))
    ELSE [err |-> FALSE, text |-> tab.ch_pho[idx + 1].ch]

\* Faulty variant: the sort key is x[1], ascending by count.
BeforeAscending(r, j, i) == r[j][2] < r[i][2] \/ (r[j][2] = r[i][2] /\ j < i)

\* Faulty variant: the sort is not stable, entries of equal count come out in
\* reverse table order.
BeforeTiesReversed(r, j, i) == r[j][2] > r[i][2] \/ (r[j][2] = r[i][2] /\ j > i)

\* list.sort(key=lambda x: -x[1]): stable, by count descending.  Before(r, j, i)
\* tells that r[j] comes before r[i] in the sorted list.
Before(r, j, i) == r[j][2] > r[i][2] \/ (r[j][2] = r[i][2] /\ j < i)

Rank(r, i) == Cardinality({ j \in 1..Len(r) : Before(r, j, i) })

SortByCount(results) ==
    [ k \in 1..Len(results) |->
        results[CHOOSE i \in 1..Len(results) : Rank(results, i) = k - 1] ]

\* One round of the loop over range(start, end) of lookup: results after
\* get_char(j) returned c.
GatherOne(tab, j, results, c) ==
    IF c.text # << >> THEN Append(results, <<c.text, tab.ch_pho[j + 1].count>>)
    ELSE results

\* The loop over range(start, end) of lookup: [err, results].
RECURSIVE Gather(_, _, _, _)
Gather(tab, j, end, results) ==
    IF j >= end THEN [err |-> FALSE, results |-> results]
    ELSE IF get_char(tab, j).err THEN [err |-> TRUE, results |-> results]
    ELSE Gather(tab, j + 1, end, GatherOne(tab, j, results, get_char(tab, j)))

\* Faulty variant: the scan gives up at a key below the one looked up.
RECURSIVE ScanStopsBelow(_, _, _)
ScanStopsBelow(tab, phokey, i) ==
    IF i >= Len(tab.idx_pho) - 1 THEN [err |-> FALSE, results |-> << >>]
    ELSE IF tab.idx_pho[i + 1].key = phokey
         THEN Gather(tab, tab.idx_pho[i + 1].start, tab.idx_pho[i + 2].start, << >>)
    ELSE IF tab.idx_pho[i + 1].key < phokey THEN [err |-> FALSE, results |-> << >>]
    ELSE ScanStopsBelow(tab, phokey, i + 1)

\* The scan of idx_pho[:-1] of lookup, from Python index i.
RECURSIVE Scan(_, _, _)
Scan(tab, phokey, i) ==
    IF i >= Len(tab.idx_pho) - 1 THEN [err |-> FALSE, results |-> << >>]
    ELSE IF tab.idx_pho[i + 1].key = phokey
         THEN Gather(tab, tab.idx_pho[i + 1].start, tab.idx_pho[i + 2].start, << >>)
    ELSE IF tab.idx_pho[i + 1].key > phokey THEN [err |-> FALSE, results |-> << >>]
    ELSE Scan(tab, phokey, i + 1)

\* The characters of the sorted (ch, count) pairs.
Chars(sorted) == [ i \in 1..Len(sorted) |-> sorted[i][1] ]

\* What lookup returns after the scan ended with g: [err, out].
Ranked(g) ==
    [ err |-> g.err, out |-> IF g.err THEN << >> ELSE Chars(SortByCount(g.results)) ]

\* PhoneticTable.lookup: [err, out].
lookup(tab, phokey) == Ranked(Scan(tab, phokey, 0))

\* The index entry the scan of lookup stops at: [hit, start, end], start and
\* end being the bounds of range(start, end) when the key was found.
RECURSIVE ScanRange(_, _, _)
ScanRange(tab, phokey, i) ==
    IF i >= Len(tab.idx_pho) - 1 THEN [hit |-> FALSE, start |-> 0, end |-> 0]
    ELSE IF tab.idx_pho[i + 1].key = phokey
         THEN [hit |-> TRUE, start |-> tab.idx_pho[i + 1].start,
               end |-> tab.idx_pho[i + 2].start]
    ELSE IF tab.idx_pho[i + 1].key > phokey THEN [hit |-> FALSE, start |-> 0, end |-> 0]
    ELSE ScanRange(tab, phokey, i + 1)

(***************************************************************************)
(* hime_engine.py: the keyboard layout and PhoneticEngine.                 *)
(***************************************************************************)
\* STANDARD_ZHUYIN_MAP: key character |-> list of <<num, typ>>.
STANDARD_ZHUYIN_MAP ==
    (49 :> << <<1, 0>> >>)   @@ (113 :> << <<2, 0>> >>)  @@ (97 :> << <<3, 0>> >>)  @@
    (122 :> << <<4, 0>> >>)  @@ (50 :> << <<5, 0>> >>)   @@ (119 :> << <<6, 0>> >>) @@
    (115 :> << <<7, 0>> >>)  @@ (120 :> << <<8, 0>> >>)  @@ (101 :> << <<9, 0>> >>) @@
    (100 :> << <<10, 0>> >>) @@ (99 :> << <<11, 0>> >>)  @@ (114 :> << <<12, 0>> >>) @@
    (102 :> << <<13, 0>> >>) @@ (118 :> << <<14, 0>> >>) @@ (53 :> << <<15, 0>> >>) @@
    (116 :> << <<16, 0>> >>) @@ (103 :> << <<17, 0>> >>) @@ (98 :> << <<18, 0>> >>) @@
    (121 :> << <<19, 0>> >>) @@ (104 :> << <<20, 0>> >>) @@ (110 :> << <<21, 0>> >>) @@
    (117 :> << <<1, 1>> >>)  @@ (106 :> << <<2, 1>> >>)  @@ (109 :> << <<3, 1>> >>) @@
    (56 :> << <<1, 2>> >>)   @@ (105 :> << <<2, 2>> >>)  @@ (107 :> << <<3, 2>> >>) @@
    (44 :> << <<4, 2>> >>)   @@ (57 :> << <<5, 2>> >>)   @@ (111 :> << <<6, 2>> >>) @@
    (108 :> << <<7, 2>> >>)  @@ (46 :> << <<8, 2>> >>)   @@ (48 :> << <<9, 2>> >>)  @@
    (112 :> << <<10, 2>> >>) @@ (59 :> << <<11, 2>> >>)  @@ (47 :> << <<12, 2>> >>) @@
    (45 :> << <<13, 2>> >>)  @@
    (51 :> << <<2, 3>> >>)   @@ (52 :> << <<3, 3>> >>)   @@ (54 :> << <<4, 3>> >>)  @@
    (55 :> << <<5, 3>> >>)   @@ (32 :> << <<1, 3>> >>)

candidates_per_page == 10

\* sel_keys = '1234567890'
sel_keys == <<49, 50, 51, 52, 53, 54, 55, 56, 57, 48>>

InSelKeys(key) == \E i \in 1..Len(sel_keys) : sel_keys[i] = key

\* sel_keys.index(key)
SelIndex(key) == (CHOOSE i \in 1..Len(sel_keys) : sel_keys[i] = key) - 1

SPACE == 32
ESCAPE == 27
BACKSPACE == 8

\* The value of pho_table when no table file could be loaded.
None == [none |-> TRUE]

\* The four fields PhoneticEngine.__init__ sets for the input state.
NewEngine ==
    [ typ_pho        |-> <<0, 0, 0, 0>>,
      inph           |-> <<0, 0, 0, 0>>,
      candidates     |-> << >>,
      candidate_page |-> 0 ]

\* Faulty variant: reset forgets the raw keys.
reset_keeps_inph(e) ==
    [e EXCEPT !.typ_pho = <<0, 0, 0, 0>>, !.candidates = << >>, !.candidate_page = 0]

\* PhoneticEngine.reset
reset(e) ==
    [e EXCEPT !.typ_pho = <<0, 0, 0, 0>>, !.inph = <<0, 0, 0, 0>>,
              !.candidates = << >>, !.candidate_page = 0]

\* PhoneticEngine.is_empty
is_empty(e) == \A i \in 1..4 : e.typ_pho[i] = 0

\* PhoneticEngine.get_preedit
get_preedit(e) == IF is_empty(e) THEN << >> ELSE SlotsToStr(e.typ_pho, 1)

\* The highest Python index of a non-zero slot, -1 when there is none (the
\* scan range(3, -1, -1) of _insert_phonetic and _delete_last).
MaxInIdx(t) ==
    IF \E i \in 1..4 : t[i] # 0
    THEN (CHOOSE i \in 1..4 : t[i] # 0 /\ \A j \in (i + 1)..4 : t[j] = 0) - 1
    ELSE -1

\* Faulty variant: a component put at or below the highest filled slot pushes
\* the value of its slot one slot up.
insert_phonetic_shifts(e, num, typ, key) ==
    IF typ > MaxInIdx(e.typ_pho)
    THEN [e EXCEPT !.typ_pho[typ + 1] = num, !.inph[typ + 1] = key]
    ELSE [e EXCEPT !.typ_pho[Min(typ + 2, 4)] = e.typ_pho[typ + 1],
                   !.inph[Min(typ + 2, 4)] = e.inph[typ + 1],
                   !.typ_pho[typ + 1] = num, !.inph[typ + 1] = key]

\* PhoneticEngine._insert_phonetic
insert_phonetic(e, num, typ, key) ==
    IF typ > MaxInIdx(e.typ_pho)
    THEN [e EXCEPT !.typ_pho[typ + 1] = num, !.inph[typ + 1] = key]
    ELSE [e EXCEPT !.typ_pho[typ + 1] = num, !.inph[typ + 1] = key]

\* The loop "for num, typ in mappings" of process_key.
RECURSIVE InsertAll(_, _, _, _)
InsertAll(e, mappings, i, key) ==
    IF i > Len(mappings) THEN e
    ELSE InsertAll(insert_phonetic(e, mappings[i][1], mappings[i][2], key),
                   mappings, i + 1, key)

\* PhoneticEngine._delete_last
\* Faulty variant: the scan for the slot to clear runs from the initial up.
delete_first(e) ==
    [ (IF is_empty(e) THEN e
       ELSE [e EXCEPT !.typ_pho[CHOOSE i \in 1..4 :
                                  e.typ_pho[i] # 0 /\ \A j \in 1..(i - 1) : e.typ_pho[j] = 0] = 0])
      EXCEPT !.candidates = << >>, !.candidate_page = 0 ]

\* Faulty variant: every slot is cleared, not the last one entered.
clear_slot_all(e, m) ==
    IF m >= 0 THEN [e EXCEPT !.typ_pho = <<0, 0, 0, 0>>, !.inph = <<0, 0, 0, 0>>] ELSE e

clear_slot(e, m) ==
    IF m >= 0 THEN [e EXCEPT !.typ_pho[m + 1] = 0, !.inph[m + 1] = 0] ELSE e

\* Faulty variant: Backspace clears the slot and leaves the candidates.
delete_last_keeps_candidates(e) == clear_slot(e, MaxInIdx(e.typ_pho))

delete_last(e) ==
    [clear_slot(e, MaxInIdx(e.typ_pho)) EXCEPT !.candidates = << >>, !.candidate_page = 0]

\* PhoneticEngine._lookup_candidates: [e, err]; err tells that the table
\* lookup raised.
Looked(e0, r) == [e |-> [e0 EXCEPT !.candidates = r.out], err |-> r.err]

lookup_cleared(e0, tab) ==
    IF is_empty(e0) THEN [e |-> e0, err |-> FALSE]
    ELSE IF tab # None THEN Looked(e0, lookup(tab, pho2key(e0.typ_pho)))
    ELSE [e |-> e0, err |-> FALSE]

\* Faulty variant: the lookup clears the candidates and leaves the page index.
lookup_keeps_page(e, tab) == lookup_cleared([e EXCEPT !.candidates = << >>], tab)

lookup_candidates(e, tab) ==
    lookup_cleared([e EXCEPT !.candidates = << >>, !.candidate_page = 0], tab)

\* Faulty variant: the page is not cut out of the candidate list.
get_candidates_all(e) == e.candidates

\* PhoneticEngine.get_candidates
get_candidates(e) ==
    IF e.candidates = << >> THEN << >>
    ELSE Slice(e.candidates, e.candidate_page * candidates_per_page,
               e.candidate_page * candidates_per_page + candidates_per_page)

\* The result of PhoneticEngine.process_key: the engine after the call,
\* the returned tuple (handled, commit, show), whether _lookup_candidates
\* was called and what it left in candidates, and whether the call raised.
KeyResult(e, handled, commit, show, looked, found, raised) ==
    [ e |-> e, handled |-> handled, commit |-> commit, show |-> show,
      looked |-> looked, found |-> found, raised |-> raised ]

Plain(e, handled) == KeyResult(e, handled, << >>, FALSE, FALSE, << >>, FALSE)

\* Faulty variant: a single candidate is shown like several, not committed.
after_lookup_no_auto(lk) ==
    IF lk.err THEN KeyResult(lk.e, FALSE, << >>, FALSE, TRUE, << >>, TRUE)
    ELSE IF Len(lk.e.candidates) > 0
         THEN KeyResult(lk.e, TRUE, << >>, TRUE, TRUE, lk.e.candidates, FALSE)
    ELSE KeyResult(lk.e, TRUE, << >>, FALSE, TRUE, << >>, FALSE)

\* Faulty variant: a lookup without candidates drops the composition.
after_lookup_drop(lk) ==
    IF lk.err THEN KeyResult(lk.e, FALSE, << >>, FALSE, TRUE, << >>, TRUE)
    ELSE IF Len(lk.e.candidates) = 1
         THEN KeyResult(reset(lk.e), TRUE, lk.e.candidates[1], FALSE,
                        TRUE, lk.e.candidates, FALSE)
    ELSE IF Len(lk.e.candidates) > 0
         THEN KeyResult(lk.e, TRUE, << >>, TRUE, TRUE, lk.e.candidates, FALSE)
    ELSE KeyResult(reset(lk.e), TRUE, << >>, FALSE, TRUE, << >>, FALSE)

\* Faulty variant: the single candidate is committed and the input state is
\* left as the lookup made it.
after_lookup_no_reset(lk) ==
    IF lk.err THEN KeyResult(lk.e, FALSE, << >>, FALSE, TRUE, << >>, TRUE)
    ELSE IF Len(lk.e.candidates) = 1
         THEN KeyResult(lk.e, TRUE, lk.e.candidates[1], FALSE,
                        TRUE, lk.e.candidates, FALSE)
    ELSE IF Len(lk.e.candidates) > 0
         THEN KeyResult(lk.e, TRUE, << >>, TRUE, TRUE, lk.e.candidates, FALSE)
    ELSE KeyResult(lk.e, TRUE, << >>, FALSE, TRUE, << >>, FALSE)

\* process_key after _lookup_candidates returned lk = [e, err].
after_lookup(lk) ==
    IF lk.err THEN KeyResult(lk.e, FALSE, << >>, FALSE, TRUE, << >>, TRUE)
    ELSE IF Len(lk.e.candidates) = 1
         THEN KeyResult(reset(lk.e), TRUE, lk.e.candidates[1], FALSE,
                        TRUE, lk.e.candidates, FALSE)
    ELSE IF Len(lk.e.candidates) > 0
         THEN KeyResult(lk.e, TRUE, << >>, TRUE, TRUE, lk.e.candidates, FALSE)
    ELSE KeyResult(lk.e, TRUE, << >>, FALSE, TRUE, << >>, FALSE)

\* Faulty variant: the lookup is triggered by the key being a tone key, not by the
\* tone slot.
after_insert_tone_key(e1, tab, key) ==
    IF STANDARD_ZHUYIN_MAP[key][1][2] = 3 \/ key = SPACE
    THEN after_lookup(lookup_candidates(e1, tab))
    ELSE Plain(e1, TRUE)

\* process_key after the components of the key were inserted, giving e1.
after_insert(e1, tab, key) ==
    IF e1.typ_pho[4] # 0 \/ key = SPACE
    THEN after_lookup(lookup_candidates(e1, tab))
    ELSE Plain(e1, TRUE)

\* PhoneticEngine.process_key, from "Check for standard Zhuyin mapping" on.
process_mapped(e, tab, key) ==
    after_insert(InsertAll(e, STANDARD_ZHUYIN_MAP[key], 1, key), tab, key)

\* Faulty variant: Backspace is consumed on an empty buffer too.
process_unselected_bs(e, tab, key_char, key) ==
    IF key \in DOMAIN STANDARD_ZHUYIN_MAP THEN process_mapped(e, tab, key)
    ELSE IF key_char = ESCAPE THEN Plain(reset(e), TRUE)
    ELSE IF key_char = BACKSPACE THEN Plain(delete_last(e), TRUE)
    ELSE Plain(e, FALSE)

\* Faulty variant: a key that is passed through drops the composition.
process_unselected_drops(e, tab, key_char, key) ==
    IF key \in DOMAIN STANDARD_ZHUYIN_MAP THEN process_mapped(e, tab, key)
    ELSE IF key_char = ESCAPE THEN Plain(reset(e), TRUE)
    ELSE IF key_char = BACKSPACE
         THEN IF ~is_empty(e) THEN Plain(delete_last(e), TRUE)
              ELSE Plain(e, FALSE)
    ELSE Plain(reset(e), FALSE)

\* PhoneticEngine.process_key, after the candidate selection check.
process_unselected(e, tab, key_char, key) ==
    IF key \in DOMAIN STANDARD_ZHUYIN_MAP THEN process_mapped(e, tab, key)
    ELSE IF key_char = ESCAPE THEN Plain(reset(e), TRUE)
    ELSE IF key_char = BACKSPACE
         THEN IF ~is_empty(e) THEN Plain(delete_last(e), TRUE)
              ELSE Plain(e, FALSE)
    ELSE Plain(e, FALSE)

\* Faulty variant: the selection key indexes the first page whatever the page.
ActualIdxFirstPage(e, key) == SelIndex(key)

\* The index into candidates that selection key `key` stands for.
ActualIdx(e, key) == e.candidate_page * candidates_per_page + SelIndex(key)

\* Faulty variant: the selected candidate is committed and the composition
\* is kept.
process_lowered_keeps(e, tab, key_char, key) ==
    IF e.candidates # << >> /\ InSelKeys(key) /\ ActualIdx(e, key) < Len(e.candidates)
    THEN KeyResult(e, TRUE, e.candidates[ActualIdx(e, key) + 1],
                   FALSE, FALSE, << >>, FALSE)
    ELSE process_unselected(e, tab, key_char, key)

\* Faulty variant: a key that has a phonetic component is composed, and only
\* other keys select.
process_lowered_composes(e, tab, key_char, key) ==
    IF /\ e.candidates # << >> /\ InSelKeys(key) /\ ActualIdx(e, key) < Len(e.candidates)
       /\ key \notin DOMAIN STANDARD_ZHUYIN_MAP
    THEN KeyResult(reset(e), TRUE, e.candidates[ActualIdx(e, key) + 1],
                   FALSE, FALSE, << >>, FALSE)
    ELSE process_unselected(e, tab, key_char, key)

\* PhoneticEngine.process_key on key = key_char.lower()
process_lowered(e, tab, key_char, key) ==
    IF e.candidates # << >> /\ InSelKeys(key) /\ ActualIdx(e, key) < Len(e.candidates)
    THEN KeyResult(reset(e), TRUE, e.candidates[ActualIdx(e, key) + 1],
                   FALSE, FALSE, << >>, FALSE)
    ELSE process_unselected(e, tab, key_char, key)

\* PhoneticEngine.process_key
process_key(e, tab, key_char) == process_lowered(e, tab, key_char, Lower(key_char))

\* PhoneticEngine.page_up: [e, changed]
page_up(e) ==
    IF e.candidate_page > 0
    THEN [e |-> [e EXCEPT !.candidate_page = @ - 1], changed |-> TRUE]
    ELSE [e |-> e, changed |-> FALSE]

\* Faulty variant: the last page is not taken as the last one.
page_down_inclusive(e) ==
    IF e.candidate_page <= (Len(e.candidates) - 1) \div candidates_per_page
    THEN [e |-> [e EXCEPT !.candidate_page = @ + 1], changed |-> TRUE]
    ELSE [e |-> e, changed |-> FALSE]

\* Faulty variant: the page index is advanced whatever the number of pages.
page_down_unguarded(e) == [e |-> [e EXCEPT !.candidate_page = @ + 1], changed |-> TRUE]

\* PhoneticEngine.page_down: [e, changed]; // is floor division.
page_down(e) ==
    IF e.candidate_page < (Len(e.candidates) - 1) \div candidates_per_page
    THEN [e |-> [e EXCEPT !.candidate_page = @ + 1], changed |-> TRUE]
    ELSE [e |-> e, changed |-> FALSE]

\* Faulty variant: the index is taken on the first page whatever the page.
select_candidate_first_page(e, index) ==
    IF index < Len(e.candidates)
    THEN [e |-> reset(e), commit |-> e.candidates[index + 1], none |-> FALSE]
    ELSE [e |-> e, commit |-> << >>, none |-> TRUE]

\* PhoneticEngine.select_candidate: [e, commit, none]; none is the return
\* value None.
select_candidate(e, index) ==
    IF e.candidate_page * candidates_per_page + index < Len(e.candidates)
    THEN [ e |-> reset(e),
           commit |-> e.candidates[e.candidate_page * candidates_per_page + index + 1],
           none |-> FALSE ]
    ELSE [e |-> e, commit |-> << >>, none |-> TRUE]

(***************************************************************************)
(* The table files the engine is constructed over.                         *)
(***************************************************************************)
RawItem(raw, count) == [raw |-> raw, count |-> count]

\* Homophones of one syllable: three-byte UTF-8 characters from lead bytes
\* b1 b2, one for each of the usage counts.
Group(b1, b2, counts) ==
    [ i \in 1..Len(counts) |-> RawItem(<<b1, b2, 127 + i, 0>>, counts[i]) ]

\* Usage counts with ties, and usage counts rising in table order.
TieCounts(n) == [ i \in 1..n |-> (3 * i) % 7 ]
RisingCounts(n) == [ i \in 1..n |-> i ]

KEY_YI1 == pho2key(<<0, 1, 0, 1>>)
KEY_WU1 == pho2key(<<0, 2, 0, 1>>)
KEY_WU3 == pho2key(<<0, 2, 0, 3>>)
KEY_B1  == pho2key(<<1, 0, 0, 1>>)
KEY_D2  == pho2key(<<5, 0, 0, 2>>)
KEY_N3  == pho2key(<<7, 0, 0, 3>>)
KEY_NI3 == pho2key(<<7, 1, 0, 3>>)

NI_MALE   == <<228, 189, 160, 0>>
NI_FEMALE == <<229, 166, 179, 0>>

StdFile ==
    [ idx    |-> << PhoIdx(KEY_YI1, 0),
                    PhoIdx(KEY_WU1, BigGroup),
                    PhoIdx(KEY_WU3, BigGroup + 2),
                    PhoIdx(KEY_B1,  BigGroup + 2 + MidGroup),
                    PhoIdx(KEY_D2,  BigGroup + 2 + MidGroup + 3),
                    PhoIdx(KEY_N3,  BigGroup + 2 + MidGroup + 5),
                    PhoIdx(KEY_NI3, BigGroup + 2 + MidGroup + 6) >>,
      items  |-> Group(228, 184, TieCounts(BigGroup))
                 \o Group(228, 186, RisingCounts(2))
                 \o Group(228, 185, RisingCounts(MidGroup))
                 \o << RawItem(<<229, 133, 171, 0>>, 5),
                       RawItem(<<0, 0, 0, 0>>, 9),
                       RawItem(<<27, 1, 0, 1>>, 7) >>
                 \o << RawItem(<<27, 3, 0, 0>>, 4),
                       RawItem(<<229, 164, 167, 0>>, 2) >>
                 \o << RawItem(<<229, 145, 162, 0>>, 3) >>
                 \o << RawItem(NI_MALE, 100), RawItem(NI_FEMALE, 10) >>,
      phrase |-> <<65, 66, 0, 67, 68, 69, 0>> ]

StdTable == PhoLoad(StdFile)

\* What PhoneticEngine._load_data can leave in pho_table.
Tables == {StdTable, None}

\* The key characters the host sends.
KeyChars ==
    { 115, 117, 106, 52, 51, SPACE, 49, 50, 48, ESCAPE, BACKSPACE, 61, 83, 74 }

(***************************************************************************)
(* hime_data.py: the files the three readers are given, and struct.unpack. *)
(***************************************************************************)
\* A file is [size, data]: it has size bytes, data gives those at some of
\* the offsets 0..size-1, and the bytes at the other offsets are zero.
ByteAt(f, o) == IF o \in DOMAIN f.data THEN f.data[o] ELSE 0

\* f.read(n) with the file position at pos: n bytes, or the bytes up to the
\* end of the file when fewer are left, none at or past the end.  A short
\* read leaves the position at the end of the file, where every later read
\* is empty; so the position of each read of a loader is the sum of the
\* sizes asked for before it.
Read(f, pos, n) ==
    [ i \in 1..(Min(pos + n, f.size) - pos) |-> ByteAt(f, pos + i - 1) ]

\* The value of an unsigned little-endian integer.
RECURSIVE LittleEndian(_)
LittleEndian(bytes) ==
    IF bytes = << >> THEN 0 ELSE bytes[1] + 256 * LittleEndian(Tail(bytes))

\* struct.unpack of one unsigned little-endian integer of n bytes ('<B',
\* '<H', '<I'): [err, val]; err is the struct.error raised when the buffer
\* does not hold n bytes.
unpack(buffer, n) ==
    IF Len(buffer) = n THEN [err |-> FALSE, val |-> LittleEndian(buffer)]
    ELSE [err |-> TRUE, val |-> 0]

\* The value '<b' gives for a byte: two's complement.
Signed(byte) == IF byte >= 128 THEN byte - 256 ELSE byte

\* The file that holds the bytes of a sequence, and the first n bytes of a
\* file.
FileOf(bytes) ==
    [ size |-> Len(bytes), data |-> [ o \in 0..(Len(bytes) - 1) |-> bytes[o + 1] ] ]

Truncated(f, n) ==
    [ size |-> Min(n, f.size),
      data |-> [ o \in { d \in DOMAIN f.data : d < n } |-> f.data[o] ] ]

\* PhoneticTable._load, the reads of the header: the index count (read
\* twice), the character count and the size of the phrase area.
PhoHeader(f) ==
    [ first          |-> unpack(Read(f, 0, 2), 2),
      idxnum_pho     |-> unpack(Read(f, 2, 2), 2),
      ch_phoN        |-> unpack(Read(f, 4, 4), 4),
      phrase_area_sz |-> unpack(Read(f, 8, 4), 4) ]

\* The offset of character entry k (from 0), after the header and the index.
PhoItemAt(h, k) == 12 + 4 * h.idxnum_pho.val + 8 * k

\* Some struct.unpack of _load raises: those of the header, of an index
\* entry or of a usage count.  The glyph bytes and the phrase area are read
\* without unpack.
PhoReadFails(f, h) ==
    \/ h.first.err \/ h.idxnum_pho.err \/ h.ch_phoN.err \/ h.phrase_area_sz.err
    \/ \E k \in 0..(h.idxnum_pho.val - 1) : Len(Read(f, 12 + 4 * k, 4)) # 4
    \/ \E k \in 0..(h.ch_phoN.val - 1) : unpack(Read(f, PhoItemAt(h, k) + 4, 4), 4).err

\* What _load reads when no unpack raises: the index entries, the character
\* entries and the phrase area.
PhoRead(f, h) ==
    [ idx    |-> [ k \in 1..h.idxnum_pho.val |->
                     PhoIdx(unpack(Read(f, 12 + 4 * (k - 1), 2), 2).val,
                            unpack(Read(f, 14 + 4 * (k - 1), 2), 2).val) ],
      items  |-> [ k \in 1..h.ch_phoN.val |->
                     [ raw   |-> Read(f, PhoItemAt(h, k - 1), CH_SZ),
                       count |-> unpack(Read(f, PhoItemAt(h, k - 1) + 4, 4), 4).val ] ],
      phrase |-> IF h.phrase_area_sz.val > 0
                 THEN Read(f, PhoItemAt(h, h.ch_phoN.val), h.phrase_area_sz.val)
                 ELSE << >> ]

\* PhoneticTable(filepath) on the file f with header h: [err, tab]; err is
\* the exception the constructor raises, in which case there is no table.
PhoneticTableOf(f, h) ==
    IF PhoReadFails(f, h) THEN [err |-> TRUE, tab |-> None]
    ELSE [err |-> FALSE, tab |-> PhoLoad(PhoRead(f, h))]

PhoneticTable(f) == PhoneticTableOf(f, PhoHeader(f))

\* The bytes of an unsigned little-endian integer of n bytes.
Packed(v, n) == [ i \in 1..n |-> (v \div Pow2(8 * (i - 1))) % 256 ]

RECURSIVE Concat(_)
Concat(seqs) == IF seqs = << >> THEN << >> ELSE Head(seqs) \o Concat(Tail(seqs))

\* The .tab2 file of an index, character entries and a phrase area.
PhoFile(file) ==
    FileOf(Packed(Len(file.idx), 2) \o Packed(Len(file.idx), 2)
           \o Packed(Len(file.items), 4) \o Packed(Len(file.phrase), 4)
           \o Concat([ k \in 1..Len(file.idx) |->
                         Packed(file.idx[k].key, 2) \o Packed(file.idx[k].start, 2) ])
           \o Concat([ k \in 1..Len(file.items) |->
                         file.items[k].raw \o Packed(file.items[k].count, 4) ])
           \o file.phrase)

KeyMapping(num, typ) == [num |-> num, typ |-> typ]

\* The offset of the num byte of phokbm[key][slot] in a .kbm file; the typ
\* byte follows it.
KbmAt(key, slot) == 1 + 2 * (3 * key + slot)

\* KeyboardMapping._load: some struct.unpack raises; every byte is read
\* through unpack.
KbmReadFails(f) ==
    \/ unpack(Read(f, 0, 1), 1).err
    \/ \E key \in 0..127, slot \in 0..2 :
         \/ unpack(Read(f, KbmAt(key, slot), 1), 1).err
         \/ unpack(Read(f, KbmAt(key, slot) + 1, 1), 1).err

\* phokbm[key][slot] after _load: None unless num is not 0.
KbmSlot(num, typ) == IF Signed(num) # 0 THEN KeyMapping(Signed(num), Signed(typ)) ELSE None

\* KeyboardMapping(filepath): [err, kbm].
KeyboardMapping(f) ==
    IF KbmReadFails(f) THEN [err |-> TRUE, kbm |-> None]
    ELSE [ err |-> FALSE,
           kbm |-> [ selkeyN |-> ByteAt(f, 0),
                     phokbm  |-> [ key \in 0..127 |->
                                     [ slot \in 0..2 |->
                                         KbmSlot(ByteAt(f, KbmAt(key, slot)),
                                                 ByteAt(f, KbmAt(key, slot) + 1)) ] ] ] ]

\* KeyboardMapping.get_mapping
get_mapping(kbm, key) ==
    IF 0 <= key /\ key < 128
    THEN SelectSeq(<<kbm.phokbm[key][0], kbm.phokbm[key][1], kbm.phokbm[key][2]>>,
                   LAMBDA m : m # None)
    ELSE << >>

\* The .kbm file of a selection key count and the <<num, typ>> byte pairs
\* of some <<key, slot>>; the other pairs are zero.
KbmFile(selkeyN, pairs) ==
    [ size |-> 1 + 128 * 3 * 2,
      data |-> (0 :> selkeyN)
               @@ [ o \in { KbmAt(ks[1], ks[2]) + b : ks \in DOMAIN pairs, b \in {0, 1} } |->
                      pairs[<< ((o - 1) \div 2) \div 3, ((o - 1) \div 2) % 3 >>][((o - 1) % 2) + 1] ] ]

\* GenericTable._load: the skipped QUICK_KEYS array, and the offsets of the
\* 128-byte union and of the item array behind the 72-byte TableHead.
quick_keys_size == 46 * 10 * CH_SZ + 46 * 46 * 10 * CH_SZ
GtabUnionAt == 72 + quick_keys_size
GtabItemsAt == GtabUnionAt + 128

\* The reads of the header that go through struct.unpack.  cname and
\* selkey are read and decoded with errors='replace', which raises nothing
\* on any bytes; they play no part in the items and are left out.
GtabHeader(f) ==
    [ version     |-> unpack(Read(f, 0, 4), 4),
      flag        |-> unpack(Read(f, 4, 4), 4),
      space_style |-> unpack(Read(f, 52, 4), 4),
      KeyS        |-> unpack(Read(f, 56, 4), 4),
      MaxPress    |-> unpack(Read(f, 60, 4), 4),
      M_DUP_SEL   |-> unpack(Read(f, 64, 4), 4),
      DefChars    |-> unpack(Read(f, 68, 4), 4),
      keybits     |-> unpack(Read(f, GtabUnionAt + 99, 1), 1) ]

GtabHeaderFails(h) ==
    \/ h.version.err \/ h.flag.err \/ h.space_style.err \/ h.KeyS.err
    \/ h.MaxPress.err \/ h.M_DUP_SEL.err \/ h.DefChars.err \/ h.keybits.err

\* Faulty variant: the stored bit width is taken as it is.
GtabKeybitsStored(stored) == stored

\* self.keybits: the stored byte, 5 when it is 0.
GtabKeybits(stored) == IF stored = 0 THEN 5 ELSE stored

\* self.key64
GtabKey64(keybits, MaxPress) == keybits * MaxPress > 32

\* The size of an item key, and the offset of item k (from 0).
GtabKeySize(key64) == IF key64 THEN 8 ELSE 4
GtabItemAt(key64, k) == GtabItemsAt + k * (GtabKeySize(key64) + CH_SZ)

\* An unsigned integer of any size as the set of the positions of its one
\* bits, here that of little-endian bytes: '<I' and '<Q' of an item key.
BitsOf(bytes) ==
    { p \in 0..(8 * Len(bytes) - 1) : (bytes[(p \div 8) + 1] \div Pow2(p % 8)) % 2 = 1 }

\* ch of an item: the glyph bytes without trailing zeros as UTF-8, '' when
\* they are not UTF-8.
GtabGlyph(ch_bytes) == TextOr(Utf8Decode(RStripZero(ch_bytes)))

\* "if ch: self.items.append((key, ch))"
GtabAppend(items, key, ch) == IF ch # << >> THEN Append(items, <<key, ch>>) ELSE items

\* The loop over range(DefChars) from item k: [err, items]; err is the
\* struct.error of a key that is short.
RECURSIVE GtabItems(_, _, _, _, _)
GtabItems(f, key64, DefChars, k, items) ==
    IF k >= DefChars THEN [err |-> FALSE, items |-> items]
    ELSE IF Len(Read(f, GtabItemAt(key64, k), GtabKeySize(key64))) # GtabKeySize(key64)
         THEN [err |-> TRUE, items |-> items]
    ELSE GtabItems(f, key64, DefChars, k + 1,
                   GtabAppend(items,
                              BitsOf(Read(f, GtabItemAt(key64, k), GtabKeySize(key64))),
                              GtabGlyph(Read(f, GtabItemAt(key64, k) + GtabKeySize(key64),
                                             CH_SZ))))

\* The table after _load read the items r with bit width keybits.
GtabLoaded(h, keybits, r) ==
    IF r.err THEN [err |-> TRUE, tab |-> None]
    ELSE [ err |-> FALSE,
           tab |-> [ KeyS |-> h.KeyS.val, MaxPress |-> h.MaxPress.val,
                     DefChars |-> h.DefChars.val, keybits |-> keybits,
                     key64 |-> GtabKey64(keybits, h.MaxPress.val),
                     items |-> r.items ] ]

GenericTableOf(f, h, keybits) ==
    IF GtabHeaderFails(h) THEN [err |-> TRUE, tab |-> None]
    ELSE GtabLoaded(h, keybits,
                    GtabItems(f, GtabKey64(keybits, h.MaxPress.val), h.DefChars.val, 0, << >>))

\* GenericTable(filepath): [err, tab].
GenericTable(f) ==
    GenericTableOf(f, GtabHeader(f), GtabKeybits(GtabHeader(f).keybits.val))

\* The second components of a list of pairs.
Seconds(pairs) == [ i \in 1..Len(pairs) |-> pairs[i][2] ]

\* GenericTable.lookup
gtab_lookup(tab, key_seq) ==
    Seconds(SelectSeq(tab.items, LAMBDA item : item[1] = key_seq))

\* ((1 << (num_keys * keybits)) - 1) << shift, as the set of its one bits.
PrefixMask(num_keys, keybits, shift) == { shift + b : b \in 0..(num_keys * keybits - 1) }

\* Faulty variant: the mask is not shifted to the leading fields.
lookup_prefix_low(tab, key_seq, num_keys) ==
    SelectSeq(tab.items,
              LAMBDA item :
                item[1] \cap PrefixMask(num_keys, tab.keybits, 0)
                  = key_seq \cap PrefixMask(num_keys, tab.keybits, 0))

\* GenericTable.lookup_prefix; key & mask is the intersection of the bits.
lookup_prefix(tab, key_seq, num_keys) ==
    SelectSeq(tab.items,
              LAMBDA item :
                item[1] \cap PrefixMask(num_keys, tab.keybits,
                                        (tab.MaxPress - num_keys) * tab.keybits)
                  = key_seq \cap PrefixMask(num_keys, tab.keybits,
                                            (tab.MaxPress - num_keys) * tab.keybits))

\* The .gtab file with bit width byte keybits, MaxPress, DefChars and the
\* bytes of the item array; version 1, 26 keys, the name "N", the selection
\* key "1", the other bytes zero.
GtabFileOf(keybits, MaxPress, DefChars, bytes) ==
    [ size |-> GtabItemsAt + Len(bytes),
      data |-> (0 :> 1) @@ (8 :> 78) @@ (40 :> 49) @@ (56 :> 26) @@ (60 :> MaxPress)
               @@ (68 :> DefChars) @@ ((GtabUnionAt + 99) :> keybits)
               @@ [ o \in GtabItemsAt..(GtabItemsAt + Len(bytes) - 1) |->
                      bytes[o - GtabItemsAt + 1] ] ]

\* The .gtab file of the items <<key bytes, glyph bytes>>.
GtabFile(keybits, MaxPress, items) ==
    GtabFileOf(keybits, MaxPress, Len(items),
               Concat([ k \in 1..Len(items) |-> items[k][1] \o items[k][2] ]))

(***************************************************************************)
(* State.                                                                  *)
(***************************************************************************)
VARIABLES
    typ_pho,         \* PhoneticEngine.typ_pho
    inph,            \* PhoneticEngine.inph
    candidates,      \* PhoneticEngine.candidates
    candidate_page,  \* PhoneticEngine.candidate_page
    pho_table,       \* PhoneticEngine.pho_table
    chinese_mode,    \* HIMEInputEngine.chinese_mode
    ret,             \* the last call of the facade and what it returned
    typed,           \* the keys of the scenario under way (see Track)
    heap,            \* the lists of several instances, by identity (PairSpec)
    engines          \* the two instances of PairSpec

vars == <<typ_pho, inph, candidates, candidate_page, pho_table, chinese_mode, ret, typed,
          heap, engines>>

\* HIMEInputEngine.current_mode is set at construction and never changed.
current_mode == "phonetic"

\* The input state of the facade's phonetic engine.
Eng ==
    [ typ_pho |-> typ_pho, inph |-> inph,
      candidates |-> candidates, candidate_page |-> candidate_page ]

SetEng(e) ==
    /\ typ_pho' = e.typ_pho
    /\ inph' = e.inph
    /\ candidates' = e.candidates
    /\ candidate_page' = e.candidate_page

Empty(e) ==
    /\ e.typ_pho = <<0, 0, 0, 0>>
    /\ e.candidates = << >>
    /\ e.candidate_page = 0

\* The state of the composition state machine an engine is in.
StateOf(e) ==
    IF e.candidates # << >> THEN "AwaitingSelection"
    ELSE IF is_empty(e) THEN "Empty"
    ELSE "Composing"

\* A call record: op, its argument, the state and the page index of the
\* engine e it was called in, the returned values, and for process_key what
\* the phonetic engine did.
Call(op, arg, e) ==
    [ op |-> op, arg |-> arg, was |-> StateOf(e), page |-> e.candidate_page,
      handled |-> FALSE, commit |-> << >>, preedit |-> << >>,
      cands |-> << >>, show |-> FALSE,
      value |-> FALSE,
      looked |-> FALSE, found |-> << >>, raised |-> FALSE ]

\* The end-to-end key sequences that are followed from an Empty engine in
\* Chinese mode.
Scenarios == { <<106, 117, 51, 49>>, <<115, 117, 52, 49>> }

IsPrefix(p) ==
    \E sc \in Scenarios : Len(p) <= Len(sc) /\ SubSeq(sc, 1, Len(p)) = p

\* typed after process_key(key_char): the scenario continues, starts or is
\* abandoned.
Track(key_char) ==
    IF typed # << >> /\ IsPrefix(Append(typed, key_char)) THEN Append(typed, key_char)
    ELSE IF Empty(Eng) /\ chinese_mode /\ IsPrefix(<<key_char>>) THEN <<key_char>>
    ELSE << >>

Init ==
    /\ typ_pho = NewEngine.typ_pho
    /\ inph = NewEngine.inph
    /\ candidates = NewEngine.candidates
    /\ candidate_page = NewEngine.candidate_page
    /\ pho_table \in Tables
    /\ chinese_mode = TRUE
    /\ ret = Call("init", 0, NewEngine)
    /\ typed = << >>
    /\ heap = << >>
    /\ engines = << >>

(***************************************************************************)
(* HIMEInputEngine.                                                        *)
(***************************************************************************)
\* Faulty variant: the preedit is taken before the key is processed.
facade_result_stale(e, r, key_char) ==
    [ e   |-> r.e,
      ret |-> IF r.raised
              THEN [Call("process_key", key_char, e) EXCEPT
                      !.looked = r.looked, !.raised = TRUE]
              ELSE [Call("process_key", key_char, e) EXCEPT
                      !.handled = r.handled,
                      !.commit  = r.commit,
                      !.preedit = get_preedit(e),
                      !.cands   = IF r.show THEN get_candidates(r.e) ELSE << >>,
                      !.show    = r.show,
                      !.looked  = r.looked,
                      !.found   = r.found] ]

\* What HIMEInputEngine.process_key makes of the phonetic engine's result r:
\* the engine after the call and the call record with the returned tuple.
facade_result(e, r, key_char) ==
    [ e   |-> r.e,
      ret |-> IF r.raised
              THEN [Call("process_key", key_char, e) EXCEPT
                      !.looked = r.looked, !.raised = TRUE]
              ELSE [Call("process_key", key_char, e) EXCEPT
                      !.handled = r.handled,
                      !.commit  = r.commit,
                      !.preedit = get_preedit(r.e),
                      !.cands   = IF r.show THEN get_candidates(r.e) ELSE << >>,
                      !.show    = r.show,
                      !.looked  = r.looked,
                      !.found   = r.found] ]

\* Faulty variant: the facade delegates in English mode too.
facade_process_key_any_mode(e, tab, mode, key_char) ==
    IF current_mode = "phonetic"
    THEN facade_result(e, process_key(e, tab, key_char), key_char)
    ELSE [e |-> e, ret |-> Call("process_key", key_char, e)]

\* HIMEInputEngine.process_key
facade_process_key(e, tab, mode, key_char) ==
    IF ~mode THEN [e |-> e, ret |-> Call("process_key", key_char, e)]
    ELSE IF current_mode = "phonetic"
         THEN facade_result(e, process_key(e, tab, key_char), key_char)
    ELSE [e |-> e, ret |-> Call("process_key", key_char, e)]

ProcessKey(key_char) ==
    \E r \in {facade_process_key(Eng, pho_table, chinese_mode, key_char)} :
        /\ SetEng(r.e)
        /\ ret' = r.ret
        /\ typed' = Track(key_char)
        /\ UNCHANGED <<pho_table, chinese_mode, heap, engines>>

\* Faulty variant: the mode is flipped and the composition is left as it is.
toggle_keeps_composition(e, mode) == [e |-> e, mode |-> ~mode, value |-> ~mode]

\* Faulty variant: the composition is cleared only when Chinese mode is
\* entered.
toggle_resets_on_entry(e, mode) ==
    [e |-> IF mode THEN e ELSE reset(e), mode |-> ~mode, value |-> ~mode]

\* HIMEInputEngine.toggle_chinese_mode: the engine and the flag after the
\* call, and the returned value.
toggle_chinese_mode(e, mode) == [e |-> reset(e), mode |-> ~mode, value |-> ~mode]

ToggleChineseMode ==
    \E r \in {toggle_chinese_mode(Eng, chinese_mode)} :
        /\ chinese_mode' = r.mode
        /\ SetEng(r.e)
        /\ ret' = [Call("toggle_chinese_mode", 0, Eng) EXCEPT !.value = r.value]
        /\ typed' = << >>
        /\ UNCHANGED <<pho_table, heap, engines>>

\* HIMEInputEngine.reset
Reset ==
    /\ SetEng(reset(Eng))
    /\ ret' = Call("reset", 0, Eng)
    /\ typed' = << >>
    /\ UNCHANGED <<pho_table, chinese_mode, heap, engines>>

\* HIMEInputEngine.page_up
PageUp ==
    \E r \in {IF current_mode = "phonetic" THEN page_up(Eng)
               ELSE [e |-> Eng, changed |-> FALSE]} :
        /\ SetEng(r.e)
        /\ ret' = [Call("page_up", 0, Eng) EXCEPT !.value = r.changed]
        /\ typed' = << >>
        /\ UNCHANGED <<pho_table, chinese_mode, heap, engines>>

\* HIMEInputEngine.page_down
PageDown ==
    \E r \in {IF current_mode = "phonetic" THEN page_down(Eng)
               ELSE [e |-> Eng, changed |-> FALSE]} :
        /\ SetEng(r.e)
        /\ ret' = [Call("page_down", 0, Eng) EXCEPT !.value = r.changed]
        /\ typed' = << >>
        /\ UNCHANGED <<pho_table, chinese_mode, heap, engines>>

\* HIMEInputEngine.select_candidate; value tells that a text was returned.
SelectCandidate(index) ==
    \E r \in {IF current_mode = "phonetic" THEN select_candidate(Eng, index)
               ELSE [e |-> Eng, commit |-> << >>, none |-> TRUE]} :
        /\ SetEng(r.e)
        /\ ret' = [Call("select_candidate", index, Eng) EXCEPT
                     !.commit = r.commit, !.value = ~r.none]
        /\ typed' = << >>
        /\ UNCHANGED <<pho_table, chinese_mode, heap, engines>>

Next ==
    \/ \E key_char \in KeyChars : ProcessKey(key_char)
    \/ ToggleChineseMode
    \/ Reset
    \/ PageUp
    \/ PageDown
    \/ \E index \in 0..9 : SelectCandidate(index)

Spec == Init /\ [][Next]_vars

(***************************************************************************)
(* The phonetic table on its own: a table file is loaded, then lookup or   *)
(* get_char is called on the table.  Both leave the table as it is, so the *)
(* calls are made on the table as loaded.  Or keys are pressed on an       *)
(* engine over the loaded table, up to the first key that triggers a       *)
(* lookup.  ret is the record of the last call, with the file the table    *)
(* was loaded from.                                                        *)
(***************************************************************************)
\* The phrase area of the probed files: b"AB\x00CDE\x00".
PhraseBlob == <<65, 66, 0, 67, 68, 69, 0>>

\* The character entries the probed files are made of: three characters, two
\* of them of equal usage count, an all-zero glyph, and phrase escapes with offset 3
\* (inside the phrase area), 9 and 65536 (past its end), and with offset
\* bytes that are a UTF-8 sequence of their own.
ProbeItems ==
    { RawItem(<<228, 184, 128, 0>>, 2), RawItem(<<228, 186, 140, 0>>, 2),
      RawItem(<<228, 184, 137, 0>>, 3), RawItem(<<0, 0, 0, 0>>, 5),
      RawItem(<<27, 3, 0, 0>>, 1),      RawItem(<<27, 9, 0, 0>>, 4),
      RawItem(<<27, 0, 0, 1>>, 6),      RawItem(<<27, 228, 184, 128>>, 1) }

ItemLists == UNION { [1..n -> ProbeItems] : n \in 0..MaxItems }

\* The index arrays: none, one or two keys in ascending order; the start
\* values include ranges that are empty, that run backwards and that reach
\* past the character array.
IndexLists ==
    { << >> }
    \cup { << PhoIdx(KEY_YI1, a) >> : a \in {0, 1} }
    \cup { << PhoIdx(KEY_YI1, ab[1]), PhoIdx(KEY_WU3, ab[2]) >> :
             ab \in { <<0, 1>>, <<0, 2>>, <<1, 0>>, <<0, MaxItems + 2>> } }

ProbeFiles ==
    { [idx |-> ix, items |-> its, phrase |-> PhraseBlob] :
        its \in ItemLists, ix \in IndexLists }

\* The keys looked up: the two of the index arrays, one between them and one
\* above them.
ProbeKeys == {KEY_YI1, KEY_WU1, KEY_WU3, KEY_B1}

LoadTable ==
    /\ pho_table = None
    /\ \E file \in ProbeFiles :
          /\ pho_table' = PhoLoad(file)
          /\ ret' = [op |-> "_load", file |-> file]
    /\ UNCHANGED <<typ_pho, inph, candidates, candidate_page, chinese_mode, typed,
                   heap, engines>>

TableLookup(phokey) ==
    /\ ret.op = "_load"
    /\ \E r \in {lookup(pho_table, phokey)}, g \in {ScanRange(pho_table, phokey, 0)} :
          ret' = [ op |-> "lookup", file |-> ret.file, phokey |-> phokey,
                   err |-> r.err, out |-> r.out,
                   hit |-> g.hit, start |-> g.start, end |-> g.end ]
    /\ UNCHANGED <<typ_pho, inph, candidates, candidate_page, pho_table,
                   chinese_mode, typed, heap, engines>>

TableGetChar(idx) ==
    /\ ret.op = "_load"
    /\ \E r \in {get_char(pho_table, idx)} :
          ret' = [ op |-> "get_char", file |-> ret.file, idx |-> idx,
                   err |-> r.err, text |-> r.text ]
    /\ UNCHANGED <<typ_pho, inph, candidates, candidate_page, pho_table,
                   chinese_mode, typed, heap, engines>>

\* The keys pressed on an engine over a probed table: the medials ㄧ and ㄨ and
\* the tones 1 and 3, which make up the probed keys.
TableKeys == {117, 106, SPACE, 52}

\* HIMEInputEngine.process_key on an engine whose table is the loaded one.
TableProcessKey(key_char) ==
    /\ pho_table # None
    /\ ret.op = "_load" \/ (ret.op = "process_key" /\ ~ret.looked)
    /\ \E r \in {facade_process_key(Eng, pho_table, chinese_mode, key_char)} :
          /\ SetEng(r.e)
          /\ ret' = [ op |-> "process_key", file |-> ret.file, arg |-> key_char,
                      raised |-> r.ret.raised, looked |-> r.ret.looked,
                      handled |-> r.ret.handled, commit |-> r.ret.commit,
                      show |-> r.ret.show, cands |-> r.ret.cands,
                      found |-> r.ret.found ]
    /\ UNCHANGED <<pho_table, chinese_mode, typed, heap, engines>>

TableInit == Init /\ pho_table = None

TableNext ==
    \/ LoadTable
    \/ \E phokey \in ProbeKeys : TableLookup(phokey)
    \/ \E idx \in -1..(MaxItems + 1) : TableGetChar(idx)
    \/ \E key_char \in TableKeys : TableProcessKey(key_char)

TableSpec == TableInit /\ [][TableNext]_vars

(***************************************************************************)
(* The three readers on their own: a file, whole or cut short, is given to *)
(* PhoneticTable, KeyboardMapping or GenericTable; a mapping or a generic  *)
(* table that was read is then queried once.  ret is the record of the     *)
(* last call; for a read it holds the file, the whole file it is the first *)
(* bytes of, and what the constructor gave.                                *)
(***************************************************************************)
\* The .tab2 files read: one index entry over a character, a phrase escape
\* and the phrase area b"AB\x00CDE\x00"; and one without a phrase area.
PhoWholes ==
    { PhoFile([ idx    |-> << PhoIdx(KEY_YI1, 0) >>,
                items  |-> << RawItem(<<228, 184, 128, 0>>, 2), RawItem(<<27, 3, 0, 0>>, 1) >>,
                phrase |-> PhraseBlob ]),
      PhoFile([ idx    |-> << PhoIdx(KEY_YI1, 0), PhoIdx(KEY_WU3, 1) >>,
                items  |-> << RawItem(<<228, 184, 128, 0>>, 2) >>,
                phrase |-> << >> ]) }

\* The .kbm file read: 's', 'u' and '4' as in the standard layout, a second
\* slot with num -1, a pair with num 0 and a pair in the last slot of the
\* last key.
KbmWhole ==
    KbmFile(10, (<<115, 0>> :> <<7, 0>>) @@ (<<117, 0>> :> <<1, 1>>)
                @@ (<<52, 0>> :> <<3, 3>>) @@ (<<52, 1>> :> <<255, 3>>)
                @@ (<<49, 0>> :> <<0, 3>>) @@ (<<127, 2>> :> <<5, 3>>))

\* The sizes a .kbm file is cut to.
KbmCuts == { 0, 1, 2, 3, KbmAt(52, 0), KbmAt(52, 0) + 1, KbmAt(127, 2), KbmAt(127, 2) + 1,
             KbmAt(127, 2) + 2 }

\* The keys get_mapping is asked for.
KbmKeys == { -1, 49, 52, 115, 127, 128 }

\* The <<stored bit width, MaxPress>> of the .gtab files read: products of
\* 20, 30 and 32 bits (4-byte keys) and of 33, 35 and 36 bits (8-byte keys).
GtabShapes == { <<0, 4>>, <<5, 6>>, <<8, 4>>, <<11, 3>>, <<0, 7>>, <<6, 6>> }

\* A key as the set of its one bits, from its key fields, the first
\* keystroke in the most significant field.
FieldsBits(fields, keybits) ==
    { p \in 0..(Len(fields) * keybits - 1) :
        (fields[Len(fields) - (p \div keybits)] \div Pow2(p % keybits)) % 2 = 1 }

\* The keys of the probed items of a table of MaxPress fields: the
\* keystrokes 1, 2, ..., MaxPress; the same first half followed by other
\* keystrokes; and the first key with the top bit of the stored key set.
ProbeKeyA(keybits, MaxPress) == FieldsBits([ k \in 1..MaxPress |-> k ], keybits)

ProbeKeyB(keybits, MaxPress) ==
    FieldsBits([ k \in 1..MaxPress |-> IF k <= MaxPress \div 2 THEN k ELSE k + 1 ], keybits)

ProbeKeyC(keybits, MaxPress) ==
    ProbeKeyA(keybits, MaxPress)
      \cup { 8 * GtabKeySize(GtabKey64(keybits, MaxPress)) - 1 }

ProbeSeqs(keybits, MaxPress) ==
    { ProbeKeyA(keybits, MaxPress), ProbeKeyB(keybits, MaxPress),
      ProbeKeyC(keybits, MaxPress) }

\* The n little-endian bytes of an integer given by its one bits.
Bit(bits, p) == IF p \in bits THEN 1 ELSE 0

BytesOf(bits, n) ==
    [ i \in 1..n |->
        Bit(bits, 8 * i - 8) + 2 * Bit(bits, 8 * i - 7) + 4 * Bit(bits, 8 * i - 6)
        + 8 * Bit(bits, 8 * i - 5) + 16 * Bit(bits, 8 * i - 4) + 32 * Bit(bits, 8 * i - 3)
        + 64 * Bit(bits, 8 * i - 2) + 128 * Bit(bits, 8 * i - 1) ]

\* The items <<key bytes, glyph bytes>> of the probed files, for keys of n
\* bytes: the glyphs "a", 一, "b", no glyph, a cut UTF-8 sequence, and "a"
\* behind a zero byte.
ProbeGtabItems(keybits, MaxPress, n) ==
    { << BytesOf(ProbeKeyA(keybits, MaxPress), n), <<97, 0, 0, 0>> >>,
      << BytesOf(ProbeKeyB(keybits, MaxPress), n), <<228, 184, 128, 0>> >>,
      << BytesOf(ProbeKeyC(keybits, MaxPress), n), <<98, 0, 0, 0>> >>,
      << BytesOf(ProbeKeyA(keybits, MaxPress), n), <<0, 0, 0, 0>> >>,
      << BytesOf(ProbeKeyB(keybits, MaxPress), n), <<228, 184, 0, 0>> >>,
      << BytesOf(ProbeKeyA(keybits, MaxPress), n), <<0, 97, 0, 0>> >> }

GtabWholesOf(stored, keybits, MaxPress) ==
    { GtabFile(stored, MaxPress, items) :
        items \in UNION { [1..n -> ProbeGtabItems(keybits, MaxPress,
                                     GtabKeySize(GtabKey64(keybits, MaxPress)))] :
                          n \in 0..MaxDefChars } }

GtabWholes ==
    UNION { GtabWholesOf(sh[1], GtabKeybits(sh[1]), sh[2]) : sh \in GtabShapes }

\* The sizes a .gtab file of some size is cut to: inside the header, at the
\* ends of the header fields and regions, and every size from the start
\* of the last item on.
GtabCuts(size) ==
    { n \in { 0, 3, 8, 60, 71, 72, GtabUnionAt + 99, GtabUnionAt + 100, GtabItemsAt - 1 }
            \cup { size - d : d \in 0..(8 + CH_SZ) } : n >= 0 /\ n <= size }

LoadPhoneticTable ==
    /\ ret.op = "init"
    /\ \E whole \in PhoWholes :
         \E n \in 0..whole.size :
           \E r \in {PhoneticTable(Truncated(whole, n))} :
             /\ pho_table' = r.tab
             /\ ret' = [ op |-> "PhoneticTable", whole |-> whole,
                         file |-> Truncated(whole, n), err |-> r.err, tab |-> r.tab ]
    /\ UNCHANGED <<typ_pho, inph, candidates, candidate_page, chinese_mode, typed,
                   heap, engines>>

LoadKeyboardMapping ==
    /\ ret.op = "init"
    /\ \E n \in KbmCuts :
         \E r \in {KeyboardMapping(Truncated(KbmWhole, n))} :
           ret' = [ op |-> "KeyboardMapping", whole |-> KbmWhole,
                    file |-> Truncated(KbmWhole, n), err |-> r.err, tab |-> r.kbm ]
    /\ UNCHANGED <<typ_pho, inph, candidates, candidate_page, pho_table,
                   chinese_mode, typed, heap, engines>>

LoadGenericTable ==
    /\ ret.op = "init"
    /\ \E whole \in GtabWholes :
         \E n \in GtabCuts(whole.size) :
           \E r \in {GenericTable(Truncated(whole, n))} :
             ret' = [ op |-> "GenericTable", whole |-> whole,
                      file |-> Truncated(whole, n), err |-> r.err, tab |-> r.tab ]
    /\ UNCHANGED <<typ_pho, inph, candidates, candidate_page, pho_table,
                   chinese_mode, typed, heap, engines>>

KbmGetMapping(key) ==
    /\ ret.op = "KeyboardMapping" /\ ~ret.err
    /\ ret' = [ op |-> "get_mapping", whole |-> ret.whole, tab |-> ret.tab,
                key |-> key, out |-> get_mapping(ret.tab, key) ]
    /\ UNCHANGED <<typ_pho, inph, candidates, candidate_page, pho_table,
                   chinese_mode, typed, heap, engines>>

GtabLookup ==
    /\ ret.op = "GenericTable" /\ ~ret.err
    /\ \E key_seq \in ProbeSeqs(ret.tab.keybits, ret.tab.MaxPress) :
         ret' = [ op |-> "lookup", whole |-> ret.whole, tab |-> ret.tab,
                  key_seq |-> key_seq, out |-> gtab_lookup(ret.tab, key_seq) ]
    /\ UNCHANGED <<typ_pho, inph, candidates, candidate_page, pho_table,
                   chinese_mode, typed, heap, engines>>

GtabLookupPrefix ==
    /\ ret.op = "GenericTable" /\ ~ret.err
    /\ \E key_seq \in ProbeSeqs(ret.tab.keybits, ret.tab.MaxPress) :
         \E num_keys \in 0..ret.tab.MaxPress :
           ret' = [ op |-> "lookup_prefix", whole |-> ret.whole, tab |-> ret.tab,
                    key_seq |-> key_seq, num_keys |-> num_keys,
                    out |-> lookup_prefix(ret.tab, key_seq, num_keys),
                    exact |-> gtab_lookup(ret.tab, key_seq) ]
    /\ UNCHANGED <<typ_pho, inph, candidates, candidate_page, pho_table,
                   chinese_mode, typed, heap, engines>>

LoaderInit == Init /\ pho_table = None

LoaderNext ==
    \/ LoadPhoneticTable
    \/ LoadKeyboardMapping
    \/ LoadGenericTable
    \/ \E key \in KbmKeys : KbmGetMapping(key)
    \/ GtabLookup
    \/ GtabLookupPrefix

LoaderSpec == LoaderInit /\ [][LoaderNext]_vars

(***************************************************************************)
(* The engine from its construction on: PhoneticEngine.__init__ loads its  *)
(* table from a data directory, then the host calls the facade as in Spec. *)
(* ret is at first the record of the construction, with the directory.     *)
(***************************************************************************)
\* A name of the data directory for which os.path.exists is false.
Absent == [absent |-> TRUE]

pho_files == <<"pho.tab2", "s-pho.tab2", "pho-huge.tab2">>
kbm_files == <<"zo.kbm", "et.kbm">>

\* Faulty variant: the exception of a table that cannot be read is not
\* caught.
RECURSIVE load_pho_uncaught(_, _)
load_pho_uncaught(dir, i) ==
    IF i > Len(pho_files) THEN [raised |-> FALSE, tab |-> None]
    ELSE IF dir[pho_files[i]] = Absent THEN load_pho_uncaught(dir, i + 1)
    ELSE IF PhoneticTable(dir[pho_files[i]]).err THEN [raised |-> TRUE, tab |-> None]
    ELSE [raised |-> FALSE, tab |-> PhoneticTable(dir[pho_files[i]]).tab]

\* _load_data, the loop over pho_files from name i: [raised, tab].  A name
\* that exists is given to PhoneticTable; the table ends the loop, an
\* exception is caught and printed and the loop goes on.  tab is pho_table,
\* which __init__ set to None.
RECURSIVE load_pho(_, _)
load_pho(dir, i) ==
    IF i > Len(pho_files) THEN [raised |-> FALSE, tab |-> None]
    ELSE IF dir[pho_files[i]] = Absent THEN load_pho(dir, i + 1)
    ELSE IF PhoneticTable(dir[pho_files[i]]).err THEN load_pho(dir, i + 1)
    ELSE [raised |-> FALSE, tab |-> PhoneticTable(dir[pho_files[i]]).tab]

\* The loop over kbm_files, likewise: [raised, kbm].
RECURSIVE load_kbm(_, _)
load_kbm(dir, i) ==
    IF i > Len(kbm_files) THEN [raised |-> FALSE, kbm |-> None]
    ELSE IF dir[kbm_files[i]] = Absent THEN load_kbm(dir, i + 1)
    ELSE IF KeyboardMapping(dir[kbm_files[i]]).err THEN load_kbm(dir, i + 1)
    ELSE [raised |-> FALSE, kbm |-> KeyboardMapping(dir[kbm_files[i]]).kbm]

\* PhoneticEngine._load_data after the two loops gave p and k.  The engine
\* never reads self.kbm, which is left out of the state.
load_data_of(p, k) ==
    [ raised |-> p.raised \/ (~p.raised /\ k.raised), pho_table |-> p.tab ]

load_data(dir) == load_data_of(load_pho(dir, 1), load_kbm(dir, 1))

\* The three table files of the probed directories: ㄋㄧˇ with two, one and
\* three characters; the first has a phrase area.
BootFile(items, phrase) ==
    PhoFile([idx |-> << PhoIdx(KEY_NI3, 0) >>, items |-> items, phrase |-> phrase])

BootFiles ==
    << BootFile(<< RawItem(NI_MALE, 100), RawItem(NI_FEMALE, 10) >>, PhraseBlob),
       BootFile(<< RawItem(NI_MALE, 100) >>, << >>),
       BootFile(<< RawItem(NI_FEMALE, 10), RawItem(NI_MALE, 5),
                   RawItem(<<228, 184, 137, 0>>, 1) >>, << >>) >>

\* What a table name can be in a directory: absent, the whole file, the
\* file cut inside its last usage count, and the file cut by two bytes
\* (inside the phrase area when it has one).
PhoStates(whole) ==
    { Absent, whole, Truncated(whole, whole.size - 2),
      Truncated(whole, PhoItemAt(PhoHeader(whole), PhoHeader(whole).ch_phoN.val) - 1) }

KbmStates == { Absent, KbmWhole, Truncated(KbmWhole, KbmAt(52, 0)) }

DataDirs ==
    { ("pho.tab2" :> a) @@ ("s-pho.tab2" :> b) @@ ("pho-huge.tab2" :> c)
        @@ ("zo.kbm" :> y) @@ ("et.kbm" :> z) :
        a \in PhoStates(BootFiles[1]), b \in PhoStates(BootFiles[2]),
        c \in PhoStates(BootFiles[3]), y \in KbmStates, z \in {Absent, KbmWhole} }

\* PhoneticEngine.__init__ and HIMEInputEngine.__init__ over a directory.
BootInit ==
    \E dir \in DataDirs :
      \E r \in {load_data(dir)} :
        /\ typ_pho = NewEngine.typ_pho
        /\ inph = NewEngine.inph
        /\ candidates = NewEngine.candidates
        /\ candidate_page = NewEngine.candidate_page
        /\ pho_table = r.pho_table
        /\ chinese_mode = TRUE
        /\ ret = [Call("__init__", dir, NewEngine) EXCEPT !.raised = r.raised]
        /\ typed = << >>
        /\ heap = << >>
        /\ engines = << >>

BootSpec == BootInit /\ [][Next]_vars

(***************************************************************************)
(* Two engines over one table (PairSpec).  typ_pho and inph are the only   *)
(* objects an engine writes in place (self.typ_pho[typ] = num in           *)
(* _insert_phonetic, self.typ_pho[i] = 0 in _delete_last), so they are     *)
(* held by identity: heap maps the identity of each live list to its       *)
(* contents, and an instance holds the identities of its two lists.  A     *)
(* list display [0, 0, 0, 0] makes a new list.  candidates is only ever    *)
(* bound to a new list (an empty display, or the list lookup builds) and   *)
(* never written in place, and the table is only read; both are held by    *)
(* their contents.  ret is [op, on]: the last call and the instance it was *)
(* made on.                                                                *)
(***************************************************************************)
\* Faulty variant: the identity of a list that is already there.
NewRefShared(h) == IF DOMAIN h = {} THEN 1 ELSE CHOOSE a \in DOMAIN h : TRUE

\* The identity of a new list: one that no live list has.
NewRef(h) == CHOOSE a \in 1..(Cardinality(DOMAIN h) + 1) : a \notin DOMAIN h

\* A list display: the heap with a new list of contents val, and its
\* identity.
NewList(h, val) ==
    [ heap |-> [ a \in DOMAIN h \cup {NewRef(h)} |-> IF a \in DOMAIN h THEN h[a] ELSE val ],
      ref  |-> NewRef(h) ]

\* The four assignments of PhoneticEngine.reset (and of __init__) on the
\* instance inst: the list display of typ_pho is evaluated first, that of
\* inph in the heap it leaves.
RebindAll(h, inst) ==
    [ heap |-> NewList(NewList(h, <<0, 0, 0, 0>>).heap, <<0, 0, 0, 0>>).heap,
      inst |-> [inst EXCEPT
                  !.typ_pho = NewList(h, <<0, 0, 0, 0>>).ref,
                  !.inph = NewList(NewList(h, <<0, 0, 0, 0>>).heap, <<0, 0, 0, 0>>).ref,
                  !.candidates = << >>, !.candidate_page = 0] ]

\* HIMEInputEngine(data_dir): the heap with the lists of a new instance,
\* and the instance.
HIMEInputEngine(h) ==
    RebindAll(h, [ typ_pho |-> 0, inph |-> 0, candidates |-> << >>,
                   candidate_page |-> 0, chinese_mode |-> TRUE ])

\* The input state of an instance, its lists by their contents.
View(h, inst) ==
    [ typ_pho |-> h[inst.typ_pho], inph |-> h[inst.inph],
      candidates |-> inst.candidates, candidate_page |-> inst.candidate_page ]

\* The heap after the lists of inst were written in place to those of w:
\* every holder of these lists sees the contents.
WriteInPlace(h, inst, w) ==
    [ a \in DOMAIN h |-> IF a = inst.inph THEN w.inph
                         ELSE IF a = inst.typ_pho THEN w.typ_pho
                         ELSE h[a] ]

\* The lists that an instance still refers to.
Live(h, engs) ==
    [ a \in { engs[i].typ_pho : i \in DOMAIN engs } \cup { engs[i].inph : i \in DOMAIN engs }
        |-> h[a] ]

\* The engine as the in-place writes of PhoneticEngine.process_key leave its
\* lists: none on the selection path, the components of a mapped key, the
\* slot Backspace clears.
written(e, key_char, key) ==
    IF e.candidates # << >> /\ InSelKeys(key) /\ ActualIdx(e, key) < Len(e.candidates)
    THEN e
    ELSE IF key \in DOMAIN STANDARD_ZHUYIN_MAP
         THEN InsertAll(e, STANDARD_ZHUYIN_MAP[key], 1, key)
    ELSE IF key_char = BACKSPACE THEN clear_slot(e, MaxInIdx(e.typ_pho))
    ELSE e

\* A method call on inst whose in-place writes leave the lists as in w,
\* which then calls reset when resets is true, and which ends in the input
\* state e2: the heap and the instance after it.
Effect(h, inst, w, e2, resets) ==
    IF resets THEN RebindAll(WriteInPlace(h, inst, w), inst)
    ELSE [ heap |-> WriteInPlace(h, inst, w),
           inst |-> [inst EXCEPT !.candidates = e2.candidates,
                                 !.candidate_page = e2.candidate_page] ]

\* The key characters sent to the two instances.
PairKeys == { 115, 106, 52, 49, ESCAPE, BACKSPACE }

PairDone(i, op, s) ==
    /\ engines' = [engines EXCEPT ![i] = s.inst]
    /\ heap' = Live(s.heap, [engines EXCEPT ![i] = s.inst])
    /\ ret' = [op |-> op, on |-> i]
    /\ UNCHANGED <<typ_pho, inph, candidates, candidate_page, pho_table,
                   chinese_mode, typed>>

\* HIMEInputEngine.process_key on instance i.  reset is called on the
\* commit of a candidate and on Escape.
PairProcessKey(i, key_char) ==
    \E r \in {facade_process_key(View(heap, engines[i]), pho_table,
                                 engines[i].chinese_mode, key_char)} :
      PairDone(i, "process_key",
               Effect(heap, engines[i],
                      IF engines[i].chinese_mode
                      THEN written(View(heap, engines[i]), key_char, Lower(key_char))
                      ELSE View(heap, engines[i]),
                      r.e,
                      engines[i].chinese_mode
                        /\ (r.ret.commit # << >> \/ key_char = ESCAPE)))

\* HIMEInputEngine.reset on instance i.
PairReset(i) ==
    \E s \in {RebindAll(heap, engines[i])} : PairDone(i, "reset", s)

\* HIMEInputEngine.page_up on instance i.
PairPageUp(i) ==
    \E s \in {Effect(heap, engines[i], View(heap, engines[i]),
                     page_up(View(heap, engines[i])).e, FALSE)} :
      PairDone(i, "page_up", s)

\* HIMEInputEngine.page_down on instance i.
PairPageDown(i) ==
    \E s \in {Effect(heap, engines[i], View(heap, engines[i]),
                     page_down(View(heap, engines[i])).e, FALSE)} :
      PairDone(i, "page_down", s)

\* HIMEInputEngine.select_candidate on instance i; reset is called when a
\* candidate is returned.
PairSelectCandidate(i, index) ==
    \E r \in {select_candidate(View(heap, engines[i]), index)} :
      PairDone(i, "select_candidate",
               Effect(heap, engines[i], View(heap, engines[i]), r.e, ~r.none))

\* Two instances constructed one after the other over the same data.
PairInit ==
    /\ typ_pho = NewEngine.typ_pho
    /\ inph = NewEngine.inph
    /\ candidates = NewEngine.candidates
    /\ candidate_page = NewEngine.candidate_page
    /\ pho_table = StdTable
    /\ chinese_mode = TRUE
    /\ ret = [op |-> "init", on |-> 0]
    /\ typed = << >>
    /\ \E first \in {HIMEInputEngine(<< >>)} :
         \E second \in {HIMEInputEngine(first.heap)} :
           /\ engines = <<first.inst, second.inst>>
           /\ heap = second.heap

PairNext ==
    \/ \E i \in 1..2 : \E key_char \in PairKeys : PairProcessKey(i, key_char)
    \/ \E i \in 1..2 : PairReset(i)
    \/ \E i \in 1..2 : PairPageUp(i)
    \/ \E i \in 1..2 : PairPageDown(i)
    \/ \E i \in 1..2 : \E index \in {0, 1} : PairSelectCandidate(i, index)

PairSpec == PairInit /\ [][PairNext]_vars

(***************************************************************************)
(* The phonetic key codec on its own: the buffer holds any four slot       *)
(* values that fit the bit lengths of TYP_PHO_LEN; pho2key packs it, and   *)
(* key_typ_pho and phokey_to_str take the packed key; get_preedit shows    *)
(* the buffer.  ret is the record of the last call.                        *)
(***************************************************************************)
SlotValues(i) == 0..(Pow2(TYP_PHO_LEN[i]) - 1)

SlotInputs ==
    { <<a, b, c, d>> : a \in SlotValues(1), b \in SlotValues(2),
                       c \in SlotValues(3), d \in SlotValues(4) }

CodecInit ==
    /\ typ_pho \in SlotInputs
    /\ inph = NewEngine.inph
    /\ candidates = NewEngine.candidates
    /\ candidate_page = NewEngine.candidate_page
    /\ pho_table = None
    /\ chinese_mode = TRUE
    /\ ret = [op |-> "init"]
    /\ typed = << >>
    /\ heap = << >>
    /\ engines = << >>

CodecPho2Key ==
    /\ ret.op = "init"
    /\ ret' = [op |-> "pho2key", key |-> pho2key(typ_pho)]
    /\ UNCHANGED <<typ_pho, inph, candidates, candidate_page, pho_table,
                   chinese_mode, typed, heap, engines>>

CodecKeyTypPho ==
    /\ ret.op = "pho2key"
    /\ ret' = [op |-> "key_typ_pho", key |-> ret.key, slots |-> key_typ_pho(ret.key)]
    /\ UNCHANGED <<typ_pho, inph, candidates, candidate_page, pho_table,
                   chinese_mode, typed, heap, engines>>

CodecPhokeyToStr ==
    /\ ret.op = "pho2key"
    /\ ret' = [op |-> "phokey_to_str", key |-> ret.key, str |-> phokey_to_str(ret.key)]
    /\ UNCHANGED <<typ_pho, inph, candidates, candidate_page, pho_table,
                   chinese_mode, typed, heap, engines>>

CodecGetPreedit ==
    /\ ret.op = "init"
    /\ ret' = [op |-> "get_preedit", str |-> get_preedit(Eng)]
    /\ UNCHANGED <<typ_pho, inph, candidates, candidate_page, pho_table,
                   chinese_mode, typed, heap, engines>>

CodecNext ==
    \/ CodecPho2Key
    \/ CodecKeyTypPho
    \/ CodecPhokeyToStr
    \/ CodecGetPreedit

CodecSpec == CodecInit /\ [][CodecNext]_vars

(***************************************************************************)
(* Properties.                                                             *)
(***************************************************************************)
ZERO4 == <<0, 0, 0, 0>>

\* The last call was process_key and returned normally.
KeyCall(r) == r.op = "process_key" /\ ~r.raised

\* The component <<num, typ>> of a mapped key.
Component(key) == STANDARD_ZHUYIN_MAP[key][1]

\* The buffer t with the component of a mapped key assigned to its slot.
Assigned(t, key) == [t EXCEPT ![Component(key)[2] + 1] = Component(key)[1]]

\* The position of a key in the ordered set '1234567890', -1 for other keys.
SelPos(key) == IF key = 48 THEN 9 ELSE IF key \in 49..57 THEN key - 49 ELSE -1

\* The table maps the phonetic key for ㄋㄧˇ to 你 (usage 100) and 妳 (usage 10).
NI == <<20320>>
NI_F == <<22963>>

MapsNi3(tab) ==
    /\ tab # None
    /\ \E i \in 1..(Len(tab.idx_pho) - 1) :
         /\ tab.idx_pho[i].key = 3715
         /\ tab.idx_pho[i + 1].start = tab.idx_pho[i].start + 2
         /\ tab.ch_pho[tab.idx_pho[i].start + 1] = [ch |-> NI, count |-> 100]
         /\ tab.ch_pho[tab.idx_pho[i].start + 2] = [ch |-> NI_F, count |-> 10]

\* What the end-to-end scenario promises at each of its last two keys, for
\* the scenario whose keys are sc.
EndToEnd(sc) ==
    MapsNi3(pho_table) =>
      /\ typed = SubSeq(sc, 1, 3) =>
           /\ KeyCall(ret) /\ ret.show
           /\ ret.cands = <<NI, NI_F>>
      /\ typed = sc =>
           /\ KeyCall(ret) /\ ret.handled
           /\ ret.commit = NI
           /\ typ_pho = ZERO4

C2_ManyCandidates ==
    [][ (KeyCall(ret') /\ ret'.looked /\ Len(ret'.found) > 1) =>
          /\ ret'.handled /\ ret'.commit = << >> /\ ret'.show
          /\ typ_pho' = Assigned(typ_pho, Lower(ret'.arg))
          /\ candidates' = ret'.found
          /\ candidate_page' = 0
          /\ ret'.cands = SubSeq(ret'.found, 1, Min(10, Len(ret'.found))) ]_vars

C2_Witness ==
    /\ KeyCall(ret) /\ ret.looked /\ ret.show
    /\ Len(ret.found) > 10
    /\ Len(ret.cands) = 10

\* The number of character entries a table holds for a phonetic key.
EntryCounts(tab, phokey) ==
    IF tab = None THEN {}
    ELSE { tab.idx_pho[i + 1].start - tab.idx_pho[i].start :
             i \in { j \in 1..(Len(tab.idx_pho) - 1) : tab.idx_pho[j].key = phokey } }

\* C3.  When a triggered lookup returns exactly one candidate, process_key
\* commits it in the same call with showCandidates false and leaves the
\* engine Empty; showCandidates is never true for a phonetic key that has
\* exactly one table entry.
C3_SingleCandidate ==
    /\ (KeyCall(ret) /\ ret.looked /\ Len(ret.found) = 1) =>
          /\ ret.handled /\ ret.commit = ret.found[1] /\ ~ret.show
          /\ typ_pho = ZERO4 /\ candidates = << >> /\ candidate_page = 0
    /\ (KeyCall(ret) /\ ret.show) => 1 \notin EntryCounts(pho_table, pho2key(typ_pho))

C3_Witness ==
    /\ KeyCall(ret) /\ ret.looked /\ Len(ret.found) = 1
    /\ ret.commit # << >>
    /\ ret.was = "Composing"

\* C4 (as stated).  When a triggered lookup returns no candidate, process_key
\* returns handled, no commit, showCandidates false, and the buffer is the
\* same after the call as before the key was pressed.
C4_AsStated ==
    [][ (KeyCall(ret') /\ ret'.looked /\ ret'.found = << >>) =>
          /\ ret'.handled /\ ret'.commit = << >> /\ ~ret'.show
          /\ typ_pho' = typ_pho ]_vars

\* C4 (amended).  When a triggered lookup returns no candidate, process_key
\* returns handled, no commit, showCandidates false, and the buffer after the
\* call is the buffer before the key press with the component of the pressed
\* key assigned to its slot: the lookup itself changes no slot.
C4_NoCandidates ==
    [][ (KeyCall(ret') /\ ret'.looked /\ ret'.found = << >>) =>
          /\ ret'.handled /\ ret'.commit = << >> /\ ~ret'.show
          /\ typ_pho' = Assigned(typ_pho, Lower(ret'.arg)) ]_vars

C4_Witness ==
    /\ KeyCall(ret) /\ ret.looked /\ ret.found = << >>
    /\ ret.was = "Composing"
    /\ pho_table # None
    /\ typ_pho[1] # 0 /\ typ_pho[4] # 0

\* C5.  With a candidate set pending, the selection key at position i of
\* '1234567890' commits the candidate at index page*10+i when there is one,
\* and resets the engine to Empty.
C5_Selection ==
    [][ ( /\ KeyCall(ret')
          /\ candidates # << >>
          /\ SelPos(Lower(ret'.arg)) >= 0
          /\ candidate_page * 10 + SelPos(Lower(ret'.arg)) < Len(candidates) ) =>
          /\ ret'.handled
          /\ ret'.commit = candidates[candidate_page * 10 + SelPos(Lower(ret'.arg)) + 1]
          /\ typ_pho' = ZERO4 /\ candidates' = << >> /\ candidate_page' = 0 ]_vars

C5_Witness ==
    /\ KeyCall(ret) /\ ret.was = "AwaitingSelection"
    /\ ret.arg = 50
    /\ ret.commit = NI_F
    /\ typ_pho = ZERO4

\* The mapped keys of the tone slot.
ToneKeys == { k \in DOMAIN STANDARD_ZHUYIN_MAP : Component(k)[2] = 3 }

\* process_key(key) in engine state (cands, page) takes the key as the
\* selection of a candidate.
Selects(cands, page, key) ==
    cands # << >> /\ SelPos(key) >= 0 /\ page * 10 + SelPos(key) < Len(cands)

\* C6 (as stated).  For a mapped key, a lookup is performed if and only if
\* the key sets the tone slot or is the space character; any other mapped key
\* performs no lookup and returns (handled, no commit, showCandidates false).
C6_AsStated ==
    [][ ( /\ KeyCall(ret') /\ chinese_mode
          /\ Lower(ret'.arg) \in DOMAIN STANDARD_ZHUYIN_MAP ) =>
          /\ ret'.looked <=> (Lower(ret'.arg) \in ToneKeys \/ Lower(ret'.arg) = SPACE)
          /\ ~(Lower(ret'.arg) \in ToneKeys \/ Lower(ret'.arg) = SPACE) =>
                (ret'.handled /\ ret'.commit = << >> /\ ~ret'.show) ]_vars

\* C6 (amended).  For a mapped key that is not taken as the selection of a
\* pending candidate, a lookup is performed if and only if the tone slot is
\* non-zero once the key's component is assigned (set by this key or left by
\* an earlier one) or the key is the space character; when no lookup is
\* performed the call returns (handled, no commit, showCandidates false).
C6_LookupTrigger ==
    [][ ( /\ KeyCall(ret') /\ chinese_mode
          /\ Lower(ret'.arg) \in DOMAIN STANDARD_ZHUYIN_MAP
          /\ ~Selects(candidates, candidate_page, Lower(ret'.arg)) ) =>
          /\ ret'.looked <=> ( \/ Assigned(typ_pho, Lower(ret'.arg))[4] # 0
                               \/ Lower(ret'.arg) = SPACE )
          /\ ~ret'.looked => (ret'.handled /\ ret'.commit = << >> /\ ~ret'.show) ]_vars

C6_Witness ==
    /\ KeyCall(ret) /\ ret.looked
    /\ Lower(ret.arg) \notin ToneKeys
    /\ ret.show

\* C7.  An Escape key press leaves the engine Empty, whatever state it was
\* in: all slots zero, raw keys zero, no candidates, page 0, nothing
\* committed.
C7_Escape ==
    (ret.op = "process_key" /\ ret.arg = ESCAPE) =>
      /\ ~ret.raised
      /\ typ_pho = ZERO4 /\ inph = ZERO4
      /\ candidates = << >> /\ candidate_page = 0
      /\ ret.commit = << >>

C7_Witness ==
    /\ KeyCall(ret) /\ ret.arg = ESCAPE /\ ret.handled
    /\ ret.was = "AwaitingSelection"

\* The highest non-zero slot of a buffer (1..4), 0 for the empty buffer.
TopSlot(t) ==
    IF t[4] # 0 THEN 4 ELSE IF t[3] # 0 THEN 3 ELSE IF t[2] # 0 THEN 2
    ELSE IF t[1] # 0 THEN 1 ELSE 0

\* C8.  A Backspace on a non-empty buffer clears the highest non-zero slot and
\* no other, discards the candidates, sets the page to 0 and returns handled
\* with no commit.
C8_Backspace ==
    [][ (KeyCall(ret') /\ ret'.arg = BACKSPACE /\ typ_pho # ZERO4) =>
          /\ typ_pho' = [typ_pho EXCEPT ![TopSlot(typ_pho)] = 0]
          /\ candidates' = << >> /\ candidate_page' = 0
          /\ ret'.handled /\ ret'.commit = << >> ]_vars

C8_Witness ==
    /\ KeyCall(ret) /\ ret.arg = BACKSPACE /\ ret.handled
    /\ ret.was = "AwaitingSelection"
    /\ typ_pho[2] # 0 /\ typ_pho[4] = 0

\* C9.  A Backspace on an empty buffer returns handled false and changes
\* nothing in the engine.
C9_BackspaceEmpty ==
    [][ (KeyCall(ret') /\ ret'.arg = BACKSPACE /\ typ_pho = ZERO4) =>
          /\ ~ret'.handled
          /\ UNCHANGED <<typ_pho, inph, candidates, candidate_page,
                         pho_table, chinese_mode>> ]_vars

C9_Witness ==
    /\ KeyCall(ret) /\ ret.arg = BACKSPACE /\ ~ret.handled
    /\ chinese_mode
    /\ ret.was = "Empty"

\* C10.  In English mode processKey returns handled false, no commit, no
\* preedit, no candidates and showCandidates false for every key, and
\* changes neither buffer nor candidates nor page.
C10_EnglishMode ==
    [][ (ret'.op = "process_key" /\ ~chinese_mode) =>
          /\ ~ret'.raised
          /\ ~ret'.handled /\ ret'.commit = << >> /\ ret'.preedit = << >>
          /\ ret'.cands = << >> /\ ~ret'.show
          /\ UNCHANGED <<typ_pho, inph, candidates, candidate_page>> ]_vars

C10_Witness ==
    /\ ret.op = "process_key" /\ ~chinese_mode
    /\ ret.arg \in DOMAIN STANDARD_ZHUYIN_MAP

\* C11.  Every call of toggle_chinese_mode, in either direction and from any
\* composition state, flips the Chinese/English flag, returns the new value
\* of the flag and leaves the composition Empty: all slots zero, no
\* candidates, page 0.
C11_ToggleMode ==
    [][ ret'.op = "toggle_chinese_mode" =>
          /\ chinese_mode' = ~chinese_mode
          /\ ret'.value = chinese_mode'
          /\ typ_pho' = ZERO4 /\ candidates' = << >> /\ candidate_page' = 0 ]_vars

C11_Witness ==
    /\ ret.op = "toggle_chinese_mode"
    /\ ret.was = "AwaitingSelection" /\ ret.page > 0
    /\ ~chinese_mode /\ ~ret.value
    /\ Empty(Eng)

\* C13.  page_down returns true and increments the page by one exactly when
\* a later page exists, (page + 1) * 10 < number of candidates, and page_up
\* returns true and decrements it exactly when page > 0; otherwise they
\* return false and leave the page as it is.  Neither changes the candidates.
\* With 25 candidates page_down succeeds from pages 0 and 1 and fails on
\* page 2, which is the last page reached.
C13_Paging ==
    [][ /\ ret'.op = "page_down" =>
             /\ ret'.value <=> (candidate_page + 1) * 10 < Len(candidates)
             /\ candidate_page' = IF ret'.value THEN candidate_page + 1 ELSE candidate_page
             /\ candidates' = candidates
             /\ Len(candidates) = 25 =>
                   /\ candidate_page \in {0, 1, 2}
                   /\ candidate_page < 2 => (ret'.value /\ candidate_page' = candidate_page + 1)
                   /\ candidate_page = 2 => (~ret'.value /\ candidate_page' = 2)
        /\ ret'.op = "page_up" =>
             /\ ret'.value <=> candidate_page > 0
             /\ candidate_page' = IF ret'.value THEN candidate_page - 1 ELSE candidate_page
             /\ candidates' = candidates ]_vars

C13_Witness ==
    /\ ret.op = "page_down" /\ ~ret.value
    /\ Len(candidates) = 25
    /\ ret.page = 2 /\ candidate_page = 2

\* C14.  The page index is 0 after every operation that regenerates the
\* candidate set (a process_key that triggered a lookup) or clears the
\* buffer or the candidate set (reset, Escape, Backspace, a commit by
\* process_key or select_candidate, a mode toggle), whatever the page index
\* was before.
C14_PageReset ==
    [][ ( \/ ret'.op = "process_key" /\ ret'.looked
          \/ ret'.op = "process_key" /\ ret'.arg \in {ESCAPE, BACKSPACE}
          \/ ret'.op \in {"process_key", "select_candidate"} /\ ret'.commit # << >>
          \/ ret'.op \in {"reset", "toggle_chinese_mode"} )
        => candidate_page' = 0 ]_vars

C14_Witness ==
    /\ KeyCall(ret) /\ ret.looked
    /\ ret.page > 0
    /\ Len(ret.found) > 1 /\ candidates = ret.found
    /\ candidate_page = 0

\* C25.  A key press that inserts a component and commits nothing leaves the
\* buffer as it was with slot typ set to num, and the raw keys as they were
\* with entry typ set to the code of the (lowered) key, whether typ lies
\* beyond the highest filled slot or not; the other three slots and raw-key
\* entries are unchanged, so no value moves to another slot.
C25_InsertFrame ==
    [][ ( /\ KeyCall(ret') /\ chinese_mode
          /\ Lower(ret'.arg) \in DOMAIN STANDARD_ZHUYIN_MAP
          /\ ret'.commit = << >> ) =>
          /\ typ_pho' = Assigned(typ_pho, Lower(ret'.arg))
          /\ inph' = [inph EXCEPT ![Component(Lower(ret'.arg))[2] + 1] = Lower(ret'.arg)]
          /\ \A i \in 1..4 : i # Component(Lower(ret'.arg))[2] + 1 =>
                (typ_pho'[i] = typ_pho[i] /\ inph'[i] = inph[i]) ]_vars

\* The initial is inserted below the tone and the medial that were typed
\* before it.
C25_Witness ==
    /\ KeyCall(ret) /\ ret.arg = 115
    /\ ret.was = "Composing"
    /\ typ_pho = <<7, 1, 0, 3>>
    /\ inph = <<115, 117, 0, 52>>

\* C28.  In Chinese mode the result of the facade's process_key agrees with
\* the engine state after the key: preeditText is get_preedit of the new
\* state; visibleCandidates is get_candidates of the new state, with 1 to 10
\* entries, when showCandidates is true, and empty when it is false; handled
\* and commitText are those the phonetic engine returned.
C28_FacadeResult ==
    [][ (KeyCall(ret') /\ chinese_mode) =>
          /\ ret'.preedit = get_preedit(Eng')
          /\ ret'.show =>
                /\ ret'.cands = get_candidates(Eng')
                /\ Len(ret'.cands) \in 1..10
          /\ ~ret'.show => ret'.cands = << >>
          /\ ret'.handled = process_key(Eng, pho_table, ret'.arg).handled
          /\ ret'.commit = process_key(Eng, pho_table, ret'.arg).commit ]_vars

C28_Witness ==
    /\ KeyCall(ret) /\ chinese_mode
    /\ ret.show /\ Len(ret.cands) = 10 /\ Len(candidates) > 10
    /\ ret.was = "Composing"
    /\ ret.preedit # << >>

\* C29.  select_candidate(index), for index in 0..9, returns the candidate at
\* position page*10+index and leaves the engine Empty when the candidate set
\* has that position, and the returned text is one of the visible page;
\* otherwise it returns no value and leaves buffer, candidate set and page
\* index as they were.
C29_SelectCandidate ==
    [][ ret'.op = "select_candidate" =>
          IF candidate_page * 10 + ret'.arg < Len(candidates)
          THEN /\ ret'.value
               /\ ret'.commit = candidates[candidate_page * 10 + ret'.arg + 1]
               /\ Empty(Eng')
               /\ \E k \in 1..Len(get_candidates(Eng)) :
                     get_candidates(Eng)[k] = ret'.commit
          ELSE /\ ~ret'.value
               /\ ret'.commit = << >>
               /\ UNCHANGED <<typ_pho, inph, candidates, candidate_page>> ]_vars

\* The fifth candidate of the third page is selected.
C29_Witness ==
    /\ ret.op = "select_candidate" /\ ret.value
    /\ ret.page = 2 /\ ret.arg = 4
    /\ ret.commit # << >>
    /\ Empty(Eng)

(***************************************************************************)
(* Invariants of the composition (Spec).                                   *)
(***************************************************************************)
\* C31.  No stale candidates: in every state reached through process_key,
\* paging, selection and reset, a non-empty candidate set implies that the
\* tone slot is non-zero and that the candidate set is the table lookup of
\* the packed key of the current buffer; when the tone slot is zero the
\* candidate set is empty.
C31_NoStale ==
    /\ candidates # << >> =>
         /\ typ_pho[4] # 0
         /\ pho_table # None
         /\ ~lookup(pho_table, pho2key(typ_pho)).err
         /\ candidates = lookup(pho_table, pho2key(typ_pho)).out
    /\ typ_pho[4] = 0 => candidates = << >>

\* While the candidates of one syllable were pending, a medial key changed
\* the buffer and the candidates are those of the new syllable.
C31_Witness ==
    /\ KeyCall(ret) /\ ret.arg = 106 /\ ret.was = "AwaitingSelection"
    /\ typ_pho = <<0, 2, 0, 1>>
    /\ Len(candidates) = 2

\* C32.  Between operations the stored candidate set never has exactly one
\* element: after any sequence of process_key, paging, selection, reset and
\* mode-toggle calls its length is 0 or at least 2.
C32_NeverSingle == Len(candidates) = 0 \/ Len(candidates) >= 2

\* A lookup found exactly one candidate, and none is stored after the call.
C32_Witness ==
    /\ KeyCall(ret) /\ ret.looked /\ Len(ret.found) = 1
    /\ ret.commit = ret.found[1]
    /\ candidates = << >>

\* C33.  In every reachable state the page index is valid: it is 0 when the
\* candidate set is empty and otherwise 0 <= page and page * 10 < number of
\* candidates, so that get_candidates returns between 1 and 10 entries
\* whenever the candidate set is not empty.
C33_PageValid ==
    /\ candidates = << >> => candidate_page = 0
    /\ candidates # << >> =>
         /\ candidate_page >= 0
         /\ candidate_page * 10 < Len(candidates)
         /\ Len(get_candidates(Eng)) \in 1..10

\* page_down was refused on the last page, which is not full.
C33_Witness ==
    /\ ret.op = "page_down" /\ ~ret.value
    /\ candidate_page = 2
    /\ Len(candidates) = BigGroup
    /\ Len(get_candidates(Eng)) = BigGroup - 20

\* C34.  Every process_key call that returns handled = false leaves the
\* buffer, the raw-key array, the candidate set and the page index exactly
\* as they were.
C34_PassThrough ==
    [][ (KeyCall(ret') /\ ~ret'.handled) =>
          UNCHANGED <<typ_pho, inph, candidates, candidate_page>> ]_vars

\* An unmapped key was passed through in Chinese mode while the second page
\* of a candidate set was pending.
C34_Witness ==
    /\ KeyCall(ret) /\ ~ret.handled /\ ret.arg = 61
    /\ chinese_mode
    /\ ret.was = "AwaitingSelection"
    /\ candidate_page = 1 /\ Len(candidates) = MidGroup

\* The buffer a commit of process_key(key) is made for: the buffer as it is
\* when the key selects a pending candidate, and the buffer with the key's
\* component assigned otherwise.
Composed(t, cands, page, key) ==
    IF Selects(cands, page, key) THEN t
    ELSE IF key \in DOMAIN STANDARD_ZHUYIN_MAP THEN Assigned(t, key)
    ELSE t

\* text is one of the texts the table gives for the buffer t.
InLookup(tab, t, text) ==
    /\ tab # None
    /\ \E i \in 1..Len(lookup(tab, pho2key(t)).out) : lookup(tab, pho2key(t)).out[i] = text

\* C35.  Every process_key call that returns a non-empty commit string
\* leaves the engine Empty (all slots zero, no candidates, page 0) and
\* returns showCandidates false, and the committed string is an element of
\* the table lookup for the buffer that was composed; a commit string never
\* comes with showCandidates true.
C35_Commit ==
    [][ (KeyCall(ret') /\ ret'.commit # << >>) =>
          /\ typ_pho' = ZERO4
          /\ candidates' = << >>
          /\ candidate_page' = 0
          /\ ~ret'.show
          /\ InLookup(pho_table,
                      Composed(typ_pho, candidates, candidate_page, Lower(ret'.arg)),
                      ret'.commit) ]_vars

\* The key '2' committed the second candidate of the second page.
C35_Witness ==
    /\ KeyCall(ret) /\ ret.arg = 50 /\ ret.page = 1
    /\ ret.commit # << >>
    /\ ~ret.show
    /\ Empty(Eng)

\* C36.  When the facade is driven only through its API (process_key,
\* toggle_chinese_mode, reset, paging, select_candidate), English mode
\* implies an Empty composition: in every reachable state with the Chinese
\* flag off all four slots are zero and the candidate set is empty.
C36_EnglishEmpty ==
    ~chinese_mode => (typ_pho = ZERO4 /\ candidates = << >>)

\* A tone key was sent in English mode.
C36_Witness ==
    /\ ~chinese_mode
    /\ KeyCall(ret) /\ ret.arg = 52 /\ ~ret.handled
    /\ typ_pho = ZERO4 /\ candidates = << >>

\* The upper-case letters and the lower-case letter of each.
UpperLetters == 65..90

\* Two results of process_key give the same returned values and the same
\* next state; the records differ in the key that was sent.
SameOutcome(r1, r2) ==
    /\ r1.e = r2.e
    /\ [r1.ret EXCEPT !.arg = 0] = [r2.ret EXCEPT !.arg = 0]

\* C37.  Key matching is case-insensitive: for every letter key, process_key
\* with the upper-case character produces the same result and the same next
\* state as process_key with the lower-case character from the same state.
C37_CaseInsensitive ==
    \A c \in UpperLetters :
      SameOutcome(facade_process_key(Eng, pho_table, chinese_mode, c),
                  facade_process_key(Eng, pho_table, chinese_mode, c + 32))

\* 'S' was sent after the medial: the initial is set and the raw key kept
\* is 's'.
C37_Witness ==
    /\ KeyCall(ret) /\ ret.arg = 83 /\ ret.handled
    /\ typ_pho = <<7, 1, 0, 0>>
    /\ inph = <<115, 117, 0, 0>>

\* C38 (as stated).  In every reachable state the preedit string is empty if
\* and only if the composition buffer is empty (all four slots zero); no
\* handled key press, the space key on an empty buffer included, leaves a
\* non-empty buffer whose preedit is the empty string.
C38_AsStated ==
    /\ get_preedit(Eng) = << >> <=> typ_pho = ZERO4
    /\ (KeyCall(ret) /\ ret.handled /\ typ_pho # ZERO4) => ret.preedit # << >>

\* process_key(key) took the mapped key as a phonetic component of the
\* buffer t: its slot was overwritten and the candidates were looked up
\* again for the new buffer, and the single candidate, if that is what was
\* found, was committed.
ComposedAgain(t, key, r) ==
    /\ r.looked
    /\ r.raised \/ r.found = lookup(pho_table, pho2key(Assigned(t, key))).out
    /\ (~r.raised /\ Len(r.found) # 1) =>
         /\ typ_pho' = Assigned(t, key)
         /\ inph' = [inph EXCEPT ![Component(key)[2] + 1] = key]
         /\ candidates' = r.found
         /\ r.commit = << >>
    /\ Len(r.found) = 1 => r.commit = r.found[1]

\* C39.  Selection has priority over composition: while a candidate set is
\* pending, a digit key at position i of '1234567890' is processed as a
\* phonetic component (overwriting its slot and regenerating the candidate
\* set) if and only if no candidate exists at index page * 10 + i; when one
\* exists the key commits it and no slot is modified by the digit's
\* phonetic mapping.
C39_SelectionFirst ==
    [][ ( /\ ret'.op = "process_key" /\ chinese_mode
          /\ candidates # << >> /\ SelPos(ret'.arg) >= 0 ) =>
          IF candidate_page * 10 + SelPos(ret'.arg) < Len(candidates)
          THEN /\ KeyCall(ret') /\ ~ret'.looked
               /\ ret'.commit = candidates[candidate_page * 10 + SelPos(ret'.arg) + 1]
               /\ typ_pho' = ZERO4 /\ inph' = ZERO4
          ELSE ComposedAgain(typ_pho, ret'.arg, ret') ]_vars

\* With two candidates pending the key '3' had no candidate to select and
\* replaced the tone.
C39_Witness ==
    /\ KeyCall(ret) /\ ret.arg = 51 /\ ret.was = "AwaitingSelection"
    /\ ret.looked
    /\ typ_pho = <<7, 1, 0, 2>>
    /\ inph = <<115, 117, 0, 51>>

\* The number of non-zero slots of a buffer.
NonZero(t) == Cardinality({ i \in 1..4 : t[i] # 0 })

\* The engine after n presses of Backspace.
RECURSIVE Backspaces(_, _, _, _)
Backspaces(e, tab, mode, n) ==
    IF n = 0 THEN e
    ELSE Backspaces(facade_process_key(e, tab, mode, BACKSPACE).e, tab, mode, n - 1)

\* C40.  From every reachable state, repeated Backspace presses reach the
\* Empty state after at most 4 presses: there are at most 4 non-zero slots,
\* each handled Backspace reduces their number by exactly one, as many
\* presses as there are non-zero slots leave the engine Empty, and the
\* Backspace after that returns handled = false.
C40_BackspaceToEmpty ==
    /\ [] ( /\ NonZero(typ_pho) <= 4
            /\ Empty(Backspaces(Eng, pho_table, chinese_mode, NonZero(typ_pho)))
            /\ ~facade_process_key(Backspaces(Eng, pho_table, chinese_mode, NonZero(typ_pho)),
                                   pho_table, chinese_mode, BACKSPACE).ret.handled )
    /\ [][ (KeyCall(ret') /\ ret'.arg = BACKSPACE) =>
             /\ ret'.handled => NonZero(typ_pho') = NonZero(typ_pho) - 1
             /\ ~ret'.handled => typ_pho = ZERO4 ]_vars

\* Backspace took the tone off a buffer that had all four slots filled.
C40_Witness ==
    /\ KeyCall(ret) /\ ret.arg = BACKSPACE /\ ret.handled
    /\ typ_pho = <<7, 1, 9, 0>>
    /\ inph = <<115, 117, 48, 0>>

(***************************************************************************)
(* Properties of the phonetic table (TableSpec).                           *)
(***************************************************************************)
\* The index entries of a table, the sentinel left out, whose key is phokey.
Matching(tab, phokey) ==
    { i \in 1..(Len(tab.idx_pho) - 1) : tab.idx_pho[i].key = phokey }

\* The slots of the character array that lie in [start, end).
SlotsIn(tab, start, end) == { j \in start..(end - 1) : j >= 0 /\ j < Len(tab.ch_pho) }

\* The slots of index entry i: those in [start, nextStart).
SlotsOf(tab, i) == SlotsIn(tab, tab.idx_pho[i].start, tab.idx_pho[i + 1].start)

\* The text a slot resolves to.
Resolved(tab, j) == get_char(tab, j).text

NonEmpty(tab, S) == { j \in S : Resolved(tab, j) # << >> }

\* out is the ranking of the slots S: their resolved texts by usage count
\* descending, slots of equal usage count in table order.  The order is
\* total, so a set of slots has one ranking.
Ranks(tab, S, out) ==
    /\ Len(out) = Cardinality(S)
    /\ \E p \in [1..Len(out) -> S] :
         /\ \A k, l \in 1..Len(out) : k < l =>
               \/ tab.ch_pho[p[k] + 1].count > tab.ch_pho[p[l] + 1].count
               \/ /\ tab.ch_pho[p[k] + 1].count = tab.ch_pho[p[l] + 1].count
                  /\ p[k] < p[l]
         /\ \A k \in 1..Len(out) : out[k] = Resolved(tab, p[k])

LastReal(file) == file.idx[Len(file.idx)]

\* C18.  After loading any phonetic table the last index entry is the
\* sentinel, key 0xFFFF and start = total character count, so that the
\* lookup of the last index entry of the file gathers the character slots
\* from its start up to the total character count, all of them inside the
\* character array.
C18_Sentinel ==
    /\ pho_table # None =>
          /\ Len(pho_table.idx_pho) = Len(ret.file.idx) + 1
          /\ pho_table.idx_pho[Len(pho_table.idx_pho)]
                = [key |-> 65535, start |-> Len(ret.file.items)]
          /\ Len(pho_table.ch_pho) = Len(ret.file.items)
    /\ ( /\ ret.op = "lookup"
         /\ ret.file.idx # << >>
         /\ ret.phokey = LastReal(ret.file).key ) =>
          /\ ret.hit
          /\ ret.start = LastReal(ret.file).start
          /\ ret.end = Len(ret.file.items)
          /\ \A j \in ret.start..(ret.end - 1) : j \in 0..(Len(pho_table.ch_pho) - 1)
          /\ ~ret.err =>
                Ranks(pho_table,
                      NonEmpty(pho_table, LastReal(ret.file).start..(Len(ret.file.items) - 1)),
                      ret.out)

C18_Witness ==
    /\ ret.op = "lookup" /\ ~ret.err
    /\ Len(ret.file.idx) = 2 /\ Len(ret.file.items) = 3
    /\ ret.phokey = LastReal(ret.file).key
    /\ ret.start = 1 /\ ret.end = 3
    /\ Len(ret.out) = 2

\* The raw bytes of character entry idx of the file, and whether they are a
\* phrase escape: the first raw byte is 0x1B.
RawOf(file, idx) == file.items[idx + 1].raw

IsEscape(file, idx) == idx \in 0..(Len(file.items) - 1) /\ RawOf(file, idx)[1] = 27

\* The 24-bit little-endian offset in the three raw bytes after the escape.
RawOffset(raw) == raw[2] + 256 * raw[3] + 65536 * raw[4]

\* The zero-terminated run of bytes of blob that starts at offset o, as text.
RunAt(blob, o) ==
    Utf8Decode(SubSeq(blob, o + 1,
                      CHOOSE e \in o..Len(blob) :
                        /\ \A k \in (o + 1)..e : blob[k] # 0
                        /\ (e = Len(blob) \/ blob[e + 1] = 0))).text

\* C19 (as stated).  A character entry whose first raw byte is 0x1B resolves
\* to the zero-terminated run of the phrase area that starts at the offset
\* in its next three raw bytes, for every offset inside the phrase area;
\* with the phrase area b"AB\x00CDE\x00" and offset 3 that is "CDE".
C19_AsStated ==
    ( /\ ret.op = "get_char"
      /\ IsEscape(ret.file, ret.idx)
      /\ RawOffset(RawOf(ret.file, ret.idx)) < Len(ret.file.phrase) ) =>
        /\ ~ret.err
        /\ ret.text = RunAt(ret.file.phrase, RawOffset(RawOf(ret.file, ret.idx)))
        /\ ( /\ ret.file.phrase = <<65, 66, 0, 67, 68, 69, 0>>
             /\ RawOffset(RawOf(ret.file, ret.idx)) = 3 ) => ret.text = <<67, 68, 69>>

\* The elements of a sequence.
Range(seq) == { seq[k] : k \in 1..Len(seq) }

\* C20 (as stated).  A phrase escape whose offset lies at or beyond the end
\* of the phrase area resolves to the empty string without raising an error,
\* and the lookup of a key whose range holds such an entry raises no error
\* and returns no candidate for it.
C20_AsStated ==
    /\ ( /\ ret.op = "get_char"
         /\ IsEscape(ret.file, ret.idx)
         /\ RawOffset(RawOf(ret.file, ret.idx)) >= Len(ret.file.phrase) ) =>
           (~ret.err /\ ret.text = << >>)
    /\ ret.op = "lookup" =>
         \A i \in Matching(pho_table, ret.phokey) :
           \A j \in SlotsOf(pho_table, i) :
             ( /\ IsEscape(ret.file, j)
               /\ RawOffset(RawOf(ret.file, j)) >= Len(ret.file.phrase) ) =>
                 /\ ~ret.err
                 /\ Resolved(pho_table, j) \notin Range(ret.out)

\* Index entry i of a table is inconsistent: its start exceeds the next
\* entry's start, or its range reaches past the character array.
Inconsistent(tab, i) ==
    \/ tab.idx_pho[i].start > tab.idx_pho[i + 1].start
    \/ tab.idx_pho[i + 1].start > Len(tab.ch_pho)

\* Resolving the slots S raises nothing.
Resolvable(tab, S) == \A j \in S : ~get_char(tab, j).err

\* What a lookup over index entry i has to give when the entry is
\* inconsistent and the slots of its range that lie inside the character
\* array resolve: no error, and the ranking of those slots, nothing for the
\* slots outside.
InRangeOnly(tab, i, err, out) ==
    (Inconsistent(tab, i) /\ Resolvable(tab, SlotsOf(tab, i))) =>
      /\ ~err
      /\ Ranks(tab, NonEmpty(tab, SlotsOf(tab, i)), out)
      /\ (tab.idx_pho[i].start > tab.idx_pho[i + 1].start) => (out = << >>)

Ascending(idx) == \A k, l \in 1..Len(idx) : k < l => idx[k].key < idx[l].key

\* The exact-match search of the whole index, the sentinel left out: the
\* ranked texts of the range of the entry whose key is phokey, the empty
\* list when there is no such entry.
ExactSearch(tab, phokey) ==
    IF Matching(tab, phokey) = {} THEN [err |-> FALSE, out |-> << >>]
    ELSE Ranked(Gather(tab,
                       tab.idx_pho[CHOOSE i \in Matching(tab, phokey) : TRUE].start,
                       tab.idx_pho[(CHOOSE i \in Matching(tab, phokey) : TRUE) + 1].start,
                       << >>))

\* C26.  For every index whose keys are sorted ascending and unique, the
\* linear scan of lookup, which stops at the first key above the one looked
\* up, returns what an exact-match search of the whole index returns: the
\* candidates of the matching entry's range when the key is present, and
\* the empty list when it is absent.
C26_ScanIsSearch ==
    (ret.op = "lookup" /\ Ascending(ret.file.idx)) =>
      /\ Cardinality(Matching(pho_table, ret.phokey)) <= 1
      /\ ret.hit <=> Matching(pho_table, ret.phokey) # {}
      /\ ret.err = ExactSearch(pho_table, ret.phokey).err
      /\ ret.out = ExactSearch(pho_table, ret.phokey).out
      /\ Matching(pho_table, ret.phokey) = {} => (~ret.err /\ ret.out = << >>)

\* The key looked up lies between the two keys of the index: the scan stops
\* at the second entry, whose range holds characters.
C26_Witness ==
    /\ ret.op = "lookup" /\ ret.phokey = KEY_WU1
    /\ Len(ret.file.idx) = 2 /\ Ascending(ret.file.idx)
    /\ ret.file.idx[2].start = 1 /\ Len(ret.file.items) = 3
    /\ ~ret.hit /\ ret.out = << >>

(***************************************************************************)
(* Properties of the file readers (LoaderSpec).                            *)
(***************************************************************************)
\* The last call was a constructor of one of the three readers.
ReadCall(r) == r.op \in {"PhoneticTable", "KeyboardMapping", "GenericTable"}

\* The file read is shorter than the whole file, which is as long as its
\* header, counted arrays and regions demand.
CutShort(r) == r.file.size < r.whole.size

\* C21 (as stated).  For each of the three readers, a file shorter than the
\* header and the counted arrays and regions demand (the phrase area and the
\* last glyph bytes included) makes the read fail; no table or mapping is
\* produced from it.
C21_AsStated ==
    (ReadCall(ret) /\ CutShort(ret)) => (ret.err /\ ret.tab = None)

\* The glyph bytes decode to a non-empty string: without their trailing zero
\* bytes they are UTF-8 and not empty.
Decodes(ch_bytes) ==
    /\ Utf8Decode(RStripZero(ch_bytes)).ok
    /\ Utf8Decode(RStripZero(ch_bytes)).text # << >>

\* Item k (from 0) of a .gtab file whose keys have n bytes: its key bytes
\* and its 4 glyph bytes.
KeyBytesAt(f, n, k) == Read(f, GtabItemsAt + k * (n + 4), n)
GlyphBytesAt(f, n, k) == Read(f, GtabItemsAt + k * (n + 4) + n, 4)

\* items holds, in file order, the items of f whose glyph bytes decode to a
\* non-empty string, with keys of n bytes.
KeptInOrder(f, n, DefChars, items) ==
    \E p \in [1..Len(items) -> 0..(DefChars - 1)] :
      /\ \A i, j \in 1..Len(items) : i < j => p[i] < p[j]
      /\ { p[i] : i \in 1..Len(items) }
           = { k \in 0..(DefChars - 1) : Decodes(GlyphBytesAt(f, n, k)) }
      /\ \A i \in 1..Len(items) :
           /\ items[i][1] = BitsOf(KeyBytesAt(f, n, p[i]))
           /\ items[i][2] = Utf8Decode(RStripZero(GlyphBytesAt(f, n, p[i]))).text

\* C27.  In the generic table reader the bit width is the stored byte, or 5
\* when the stored byte is 0; the item keys are read as 8 bytes exactly when
\* bit width * MaxPress > 32 and as 4 bytes otherwise; and the item list
\* holds, in file order, exactly the items whose 4 glyph bytes decode to a
\* non-empty string.
C27_GtabItems ==
    (ret.op = "GenericTable" /\ ~CutShort(ret)) =>
      /\ ~ret.err
      /\ ret.tab.keybits = IF ByteAt(ret.file, GtabUnionAt + 99) = 0 THEN 5
                           ELSE ByteAt(ret.file, GtabUnionAt + 99)
      /\ ret.tab.MaxPress = ByteAt(ret.file, 60)
      /\ ret.tab.key64 <=> ret.tab.keybits * ret.tab.MaxPress > 32
      /\ ret.tab.DefChars * ((IF ret.tab.key64 THEN 8 ELSE 4) + 4)
           = ret.file.size - GtabItemsAt
      /\ KeptInOrder(ret.file, IF ret.tab.key64 THEN 8 ELSE 4, ret.tab.DefChars,
                     ret.tab.items)

\* A stored bit width of 0 with 7 keystrokes: 35 bits, 8-byte keys; of the
\* two items the first has no glyph and is left out.
C27_Witness ==
    /\ ret.op = "GenericTable" /\ ~CutShort(ret) /\ ~ret.err
    /\ ByteAt(ret.file, GtabUnionAt + 99) = 0
    /\ ret.tab.keybits = 5 /\ ret.tab.MaxPress = 7 /\ ret.tab.key64
    /\ ret.tab.DefChars = 2
    /\ GlyphBytesAt(ret.file, 8, 0) = <<0, 0, 0, 0>>
    /\ ret.tab.items = << <<ProbeKeyB(5, 7), <<19968>>>> >>

\* Key field k (1 is the first keystroke, in the most significant of the
\* MaxPress fields) of a key given by its one bits.
Field(key, k, tab) ==
    { p - (tab.MaxPress - k) * tab.keybits :
        p \in key \cap ((tab.MaxPress - k) * tab.keybits)
                        ..((tab.MaxPress - k + 1) * tab.keybits - 1) }

SamePrefix(key, key_seq, num_keys, tab) ==
    \A k \in 1..num_keys : Field(key, k, tab) = Field(key_seq, k, tab)

\* The key has no one bit outside the MaxPress fields.
InFields(key, tab) == \A p \in key : p < tab.MaxPress * tab.keybits

\* C30 (as stated).  lookup_prefix(key_seq, num_keys), for num_keys in
\* 0..MaxPress, returns in table order exactly the items whose leading
\* num_keys key fields equal those of key_seq; with num_keys = MaxPress the
\* items returned are those lookup(key_seq) returns.
C30_AsStated ==
    ret.op = "lookup_prefix" =>
      /\ ret.out = SelectSeq(ret.tab.items,
                             LAMBDA item : SamePrefix(item[1], ret.key_seq, ret.num_keys, ret.tab))
      /\ ret.num_keys = ret.tab.MaxPress => Seconds(ret.out) = ret.exact

\* C30 (amended).  lookup_prefix(key_seq, num_keys), for num_keys in
\* 0..MaxPress, returns in table order exactly the items, as (key, glyph)
\* pairs, whose leading num_keys key fields equal those of key_seq.  With
\* num_keys = MaxPress the glyphs of these items are what lookup(key_seq)
\* returns when neither key_seq nor an item key has a one bit outside the
\* MaxPress fields; in general lookup(key_seq), which compares whole keys,
\* returns the glyphs of those of them whose key is key_seq.
C30_Prefix ==
    ret.op = "lookup_prefix" =>
      /\ ret.out = SelectSeq(ret.tab.items,
                             LAMBDA item : SamePrefix(item[1], ret.key_seq, ret.num_keys, ret.tab))
      /\ ret.num_keys = ret.tab.MaxPress =>
           /\ ret.exact = Seconds(SelectSeq(ret.out, LAMBDA item : item[1] = ret.key_seq))
           /\ ( /\ InFields(ret.key_seq, ret.tab)
                /\ \A i \in 1..Len(ret.tab.items) : InFields(ret.tab.items[i][1], ret.tab) )
                => Seconds(ret.out) = ret.exact

\* Two items of different keys share the first three of six keystrokes.
C30_Witness ==
    /\ ret.op = "lookup_prefix"
    /\ ret.tab.MaxPress = 6 /\ ret.tab.keybits = 6 /\ ret.num_keys = 3
    /\ ret.key_seq = ProbeKeyA(6, 6)
    /\ ret.out = << <<ProbeKeyB(6, 6), <<19968>>>>, <<ProbeKeyA(6, 6), <<97>>>> >>
    /\ ret.exact = << <<97>> >>

(***************************************************************************)
(* Properties of the construction (BootSpec).                              *)
(***************************************************************************)
\* The table file names in the order the claim gives them.
TableNames == <<"pho.tab2", "s-pho.tab2", "pho-huge.tab2">>

\* The positions in TableNames of the names of a directory that exist and
\* are read without error.
Readable(dir) ==
    { i \in 1..3 : dir[TableNames[i]] # Absent /\ ~PhoneticTable(dir[TableNames[i]]).err }

\* C23.  Engine construction keeps the table of the first of pho.tab2,
\* s-pho.tab2, pho-huge.tab2, in that order, that is read without error; a
\* name that is missing or whose read fails is passed over, the construction
\* itself never fails, and it leaves no table when no name is read.  With
\* no table every process_key call returns no commit and showCandidates
\* false.
C23_Fallback ==
    /\ ret.op = "__init__" =>
         /\ ~ret.raised
         /\ Readable(ret.arg) = {} => pho_table = None
         /\ \A i \in Readable(ret.arg) :
              (\A j \in Readable(ret.arg) : i <= j) =>
                 pho_table = PhoneticTable(ret.arg[TableNames[i]]).tab
    /\ (ret.op = "process_key" /\ pho_table = None) =>
         (~ret.raised /\ ret.commit = << >> /\ ~ret.show /\ ret.cands = << >>)

\* pho.tab2 is there and cut inside a usage count, s-pho.tab2 is missing,
\* and the table is that of pho-huge.tab2.
C23_Witness ==
    /\ ret.op = "__init__"
    /\ ret.arg["pho.tab2"] # Absent /\ PhoneticTable(ret.arg["pho.tab2"]).err
    /\ ret.arg["s-pho.tab2"] = Absent
    /\ ret.arg["pho-huge.tab2"] = BootFiles[3]
    /\ pho_table # None /\ Len(pho_table.ch_pho) = 3

(***************************************************************************)
(* Properties of two instances (PairSpec).                                 *)
(***************************************************************************)
\* C24.  With two engine instances over the same table data, a key event, a
\* paging call, a selection or a reset on one instance leaves the buffer
\* (typ_pho and inph), the candidate set and the page index of the other
\* instance as they were, and leaves the table data as it was.
C24_Isolation ==
    [][ \A i \in 1..2 :
          ret'.on = i =>
            /\ \A j \in (1..2) \ {i} :
                 View(heap', engines'[j]) = View(heap, engines[j])
            /\ pho_table' = pho_table ]_vars

\* The first instance shows the second page of the candidates of one
\* syllable while a key of another syllable was sent to the second.
C24_Witness ==
    /\ ret.op = "process_key" /\ ret.on = 2
    /\ View(heap, engines[1]).typ_pho = <<0, 2, 0, 3>>
    /\ Len(engines[1].candidates) = MidGroup
    /\ engines[1].candidate_page = 1
    /\ View(heap, engines[2]).typ_pho = <<7, 2, 0, 0>>
    /\ View(heap, engines[2]).inph = <<115, 106, 0, 0>>

(***************************************************************************)
(* Properties of the phonetic key codec (CodecSpec).                       *)
(***************************************************************************)
\* C15.  Round trip: for every buffer s with initial in 0..31 except 24 (the
\* back-quote), medial in 0..3, final in 0..15 and tone in 0..7,
\* key_typ_pho(pho2key(s)) = s.
C15_RoundTrip ==
    (ret.op = "key_typ_pho" /\ typ_pho[1] # 24) => ret.slots = typ_pho

C15_Witness ==
    /\ ret.op = "key_typ_pho"
    /\ typ_pho = <<31, 3, 15, 7>>
    /\ ret.key = 16383
    /\ ret.slots = typ_pho

\* C16.  pho2key(s) is (initial << 9) | (medial << 7) | (final << 3) | tone
\* for every in-range s whose initial is not 24, and (24 << 9) | medial when
\* the initial is 24, whatever the final and the tone.  The fields of an
\* in-range s do not overlap, so the bitwise or is the sum.
C16_Packing ==
    ret.op = "pho2key" =>
      ret.key = IF typ_pho[1] = 24 THEN 24 * 512 + typ_pho[2]
                ELSE typ_pho[1] * 512 + typ_pho[2] * 128 + typ_pho[3] * 8 + typ_pho[4]

C16_Witness ==
    /\ ret.op = "pho2key"
    /\ typ_pho = <<24, 3, 15, 7>>
    /\ ret.key = 12291

\* The display glyph of slot i (1..4) holding index idx: that of the symbol
\* table when idx is non-zero and inside the table, nothing otherwise.
Glyph(i, idx) ==
    IF idx # 0 /\ idx \in 0..(Len(BOPOMOFO_CHARS[i]) - 1)
    THEN BOPOMOFO_CHARS[i][idx + 1] ELSE << >>

Display(t) == Glyph(1, t[1]) \o Glyph(2, t[2]) \o Glyph(3, t[3]) \o Glyph(4, t[4])

\* The four fields of a packed key, by arithmetic.
Fields(key) == << key \div 512, (key \div 128) % 4, (key \div 8) % 16, key % 8 >>

\* C17.  The display string of a 4-slot composition (get_preedit of the
\* buffer, phokey_to_str of a packed key) is the concatenation, in the order
\* initial, medial, final, tone, of the display glyph of each slot whose
\* index is non-zero and inside its symbol table; a zero or out-of-range
\* index contributes nothing, and no symbol table is subscripted outside
\* its length.
C17_Display ==
    /\ ret.op = "get_preedit" => ret.str = Display(typ_pho)
    /\ ret.op = "phokey_to_str" => ret.str = Display(Fields(ret.key))
    /\ \A i \in 1..4 :
         (typ_pho[i] > 0 /\ typ_pho[i] < Len(BOPOMOFO_CHARS[i]))
           => typ_pho[i] + 1 \in DOMAIN BOPOMOFO_CHARS[i]

C17_Witness ==
    /\ ret.op = "get_preedit"
    /\ typ_pho = <<25, 1, 14, 3>>
    /\ ret.str = <<12583, 711>>

====
